---- MODULE Spec2Model ----
(***************************************************************************)
(* Role and permission administration of fastbeetech-api: the permission   *)
(* catalog and role table, the User pre-save hook that materialises the     *)
(* effective permissions, the RoleManagementService mutations, the admin    *)
(* user controller, the two authentication / authorization middleware       *)
(* variants, and two service calls interleaved at their awaits.             *)
(* JavaScript arrays of permission tokens are modelled as sets:             *)
(* every reader in the code tests membership only (includes / some /        *)
(* every / filter), and the pre-save hook deduplicates through a Set.       *)
(***************************************************************************)
EXTENDS Integers, Sequences, FiniteSets, TLC

\* model.ts:59-68, the enum of the User schema's legacy `role` path.
RoleEnum ==
  {"user", "student", "instructor", "author", "editor", "moderator", "admin", "super-admin"}

\* roles-permissions.ts:141-244, the flat catalog of permission tokens.
ALL_PERMISSIONS ==
  {"course:view", "course:create", "course:edit", "course:delete", "course:publish",
   "course:unpublish", "course:manage_own", "course:manage_all", "course:enroll_students",
   "course:view_analytics", "module:view", "module:create", "module:edit", "module:delete",
   "module:reorder", "module:manage_own", "module:manage_all", "content:view",
   "content:create", "content:edit", "content:delete", "content:upload",
   "content:download", "content:manage_own", "content:manage_all", "quiz:view",
   "quiz:create", "quiz:edit", "quiz:delete", "quiz:take", "quiz:view_results",
   "quiz:grade", "quiz:manage_own", "quiz:manage_all", "student:view", "student:enroll",
   "student:unenroll", "student:view_progress", "student:manage_progress",
   "student:issue_certificates", "student:communicate", "blog:view", "blog:create",
   "blog:edit", "blog:delete", "blog:publish", "blog:unpublish", "blog:comment",
   "blog:moderate_comments", "blog:manage_own", "blog:manage_all", "internship:view",
   "internship:apply", "internship:manage_applications", "internship:review_applications",
   "internship:accept_reject", "internship:communicate", "internship:manage_program",
   "user:view", "user:create", "user:edit", "user:delete", "user:manage_roles",
   "user:manage_permissions", "user:view_profile", "user:edit_profile", "user:impersonate",
   "analytics:view_basic", "analytics:view_advanced", "analytics:export_data",
   "analytics:view_financial", "system:backup", "system:restore", "system:configure",
   "system:maintenance", "system:logs", "payment:view", "payment:process",
   "payment:refund", "payment:view_reports", "payment:manage_pricing"}

\* roles-permissions.ts:249-458, the default permission set of each role.
ROLE_PERMISSIONS ==
  [r \in RoleEnum |->
     CASE r = "user" ->
       {"course:view", "blog:view", "blog:comment", "internship:view", "internship:apply",
        "user:view_profile", "user:edit_profile"}
       [] r = "student" ->
       {"course:view", "module:view", "content:view", "content:download", "quiz:view",
        "quiz:take", "quiz:view_results", "student:enroll", "blog:view", "blog:comment",
        "internship:view", "internship:apply", "user:view_profile", "user:edit_profile",
        "analytics:view_basic"}
       [] r = "instructor" ->
       {"course:view", "course:create", "course:manage_own", "course:publish",
        "course:enroll_students", "course:view_analytics", "module:view", "module:create",
        "module:manage_own", "content:view", "content:create", "content:upload",
        "content:manage_own", "quiz:view", "quiz:create", "quiz:manage_own", "quiz:grade",
        "student:view", "student:view_progress", "student:issue_certificates",
        "student:communicate", "blog:view", "blog:comment", "user:view_profile",
        "user:edit_profile", "analytics:view_basic", "payment:view"}
       [] r = "author" ->
       {"course:view", "blog:view", "blog:create", "blog:manage_own", "blog:publish",
        "blog:comment", "internship:view", "user:view_profile", "user:edit_profile",
        "analytics:view_basic"}
       [] r = "editor" ->
       {"course:view", "course:edit", "module:view", "module:edit", "content:view",
        "content:edit", "quiz:view", "quiz:edit", "blog:view", "blog:create", "blog:edit",
        "blog:publish", "blog:unpublish", "blog:manage_all", "blog:moderate_comments",
        "internship:view", "user:view_profile", "user:edit_profile", "analytics:view_basic"}
       [] r = "moderator" ->
       {"course:view", "module:view", "content:view", "quiz:view", "student:view",
        "student:communicate", "blog:view", "blog:edit", "blog:publish", "blog:unpublish",
        "blog:moderate_comments", "blog:manage_all", "internship:view",
        "internship:review_applications", "internship:communicate", "user:view",
        "user:edit_profile", "analytics:view_basic"}
       [] r = "admin" ->
       {"course:view", "course:create", "course:edit", "course:delete", "course:publish",
        "course:unpublish", "course:manage_all", "course:enroll_students",
        "course:view_analytics", "module:view", "module:create", "module:edit",
        "module:delete", "module:reorder", "module:manage_all", "content:view",
        "content:create", "content:edit", "content:delete", "content:upload",
        "content:download", "content:manage_all", "quiz:view", "quiz:create", "quiz:edit",
        "quiz:delete", "quiz:grade", "quiz:manage_all", "student:view", "student:enroll",
        "student:unenroll", "student:view_progress", "student:manage_progress",
        "student:issue_certificates", "student:communicate", "blog:view", "blog:create",
        "blog:edit", "blog:delete", "blog:publish", "blog:unpublish",
        "blog:moderate_comments", "blog:manage_all", "internship:view",
        "internship:manage_applications", "internship:review_applications",
        "internship:accept_reject", "internship:communicate", "internship:manage_program",
        "user:view", "user:create", "user:edit", "user:manage_roles",
        "user:manage_permissions", "analytics:view_basic", "analytics:view_advanced",
        "analytics:export_data", "analytics:view_financial", "payment:view",
        "payment:process", "payment:refund", "payment:view_reports", "payment:manage_pricing"}
       [] r = "super-admin" -> ALL_PERMISSIONS]

\* The hierarchy with editor and moderator exchanged.
hierarchyWithModeratorBelowEditor ==
  <<"user", "student", "author", "instructor", "moderator", "editor", "admin", "super-admin">>

\* roles-permissions.ts:501-510, the seniority order (higher index = more powerful).
ROLE_HIERARCHY ==
  <<"user", "student", "author", "instructor", "editor", "moderator", "admin", "super-admin">>

\* Array.prototype.indexOf on ROLE_HIERARCHY: the 0-based position, -1 when absent.
indexOf(role) ==
  IF \E i \in DOMAIN ROLE_HIERARCHY : ROLE_HIERARCHY[i] = role
  THEN (CHOOSE i \in DOMAIN ROLE_HIERARCHY : ROLE_HIERARCHY[i] = role) - 1
  ELSE -1

\* hasHigherRole with the comparison weakened to >=.
hasHigherRoleOrEqual(userRole, targetRole) == indexOf(userRole) >= indexOf(targetRole)

\* roles-permissions.ts:512-517.
hasHigherRole(userRole, targetRole) == indexOf(userRole) > indexOf(targetRole)

\* roles-permissions.ts:519-525.
canManageUser(managerRole, targetRole) == hasHigherRole(managerRole, targetRole)

\* A lookup that gives super-admin the admin entry of the table.
getRolePermissionsCappedAtAdmin(role) ==
  IF role = "super-admin" THEN ROLE_PERMISSIONS["admin"]
  ELSE IF role \in RoleEnum THEN ROLE_PERMISSIONS[role] ELSE {}

\* roles-permissions.ts:486-488, `ROLE_PERMISSIONS[role] || []`.
getRolePermissions(role) ==
  IF role \in DOMAIN ROLE_PERMISSIONS THEN ROLE_PERMISSIONS[role] ELSE {}

\* roles-permissions.ts:461-466.
hasPermission(userPermissions, requiredPermission) == requiredPermission \in userPermissions

\* A version that accepts the empty list.
hasAnyPermissionOrNoneRequired(userPermissions, requiredPermissions) ==
  \/ requiredPermissions = {}
  \/ \E permission \in requiredPermissions : permission \in userPermissions

\* roles-permissions.ts:468-475, requiredPermissions.some(...).
hasAnyPermission(userPermissions, requiredPermissions) ==
  \E permission \in requiredPermissions : permission \in userPermissions

\* roles-permissions.ts:477-484, requiredPermissions.every(...).
hasAllPermissions(userPermissions, requiredPermissions) ==
  \A permission \in requiredPermissions : permission \in userPermissions

\* model.ts:118-137, the methods of a User document.
methods_hasPermission(user, permission) == permission \in user.permissions

methods_hasAnyPermission(user, permissions) ==
  \E permission \in permissions : permission \in user.permissions

methods_hasAllPermissions(user, permissions) ==
  \A permission \in permissions : permission \in user.permissions

\* A missing (undefined) role value; falsy in `x.role || "student"`.
NoRole == ""

\* The `role || "student"` fallback of the service (e.g. part_020:32).
orStudent(role) == IF role = NoRole THEN "student" ELSE role

(***************************************************************************)
(* The stores.                                                             *)
(***************************************************************************)
\* Identifiers of principals (ObjectIds).
UserIds == {"u1", "u2", "u3"}

\* The position of an id in the order ids are listed in.
indexOfId(id) == CASE id = "u1" -> 1 [] id = "u2" -> 2 [] OTHER -> 3

\* The slot of an id for which the users collection holds no document.
NoDoc ==
  [exists |-> FALSE, role |-> "user", roles |-> {}, permissions |-> {},
   extraPermissions |-> {}]

VARIABLES
  users,       \* the users collection: id -> document (model.ts:42-108)
  roleDocs,    \* the roles collection: set of [id, name, permissions] (role/model.ts:16-25)
  credential,  \* the payload of the token most recently issued by login (authToken.ts:7-14)
  last,        \* the request being answered: inputs, outcome and the store before it
  conc,        \* two service calls in progress on one target, between their awaits
  compared,    \* the three roles given to the role comparison and its answers
  checked      \* the permission query put to a principal's permissions and its answers

vars == <<users, roleDocs, credential, last, conc, compared, checked>>

\* seedRoles.ts:6-22 on an empty collection: one Role document per table entry.
SeededRoles == {[id |-> r, name |-> r, permissions |-> ROLE_PERMISSIONS[r]] : r \in RoleEnum}

\* model.ts:57-71, validation of the `role` path run by save() and by runValidators.
validRole(role) == role \in RoleEnum

\* The pre-save hook with the merge of extraPermissions left out.
preSaveWithoutExtras(doc, docs) ==
  LET computedPermissions ==
        IF doc.roles # {}
        THEN UNION {r.permissions : r \in {d \in docs : d.id \in doc.roles}}
        ELSE IF doc.role # NoRole THEN getRolePermissions(doc.role) ELSE {}
  IN  [doc EXCEPT !.permissions = computedPermissions \cup doc.permissions]

\* model.ts:140-171, the pre-save hook: effective permissions from the Role documents
\* of `roles` when that array is non-empty, else from the legacy `role`, merged with
\* extraPermissions and with whatever `permissions` holds when save() is called.
preSave(doc, docs) ==
  LET computedPermissions ==
        IF doc.roles # {}
        THEN UNION {r.permissions : r \in {d \in docs : d.id \in doc.roles}}
        ELSE IF doc.role # NoRole THEN getRolePermissions(doc.role) ELSE {}
      extras == doc.extraPermissions
      manual == doc.permissions
  IN  [doc EXCEPT !.permissions = computedPermissions \cup extras \cup manual]

\* The outcome of a handler: whether it resolved, the error message it threw otherwise,
\* and the users collection it leaves.
Resolved(store) == [ok |-> TRUE, error |-> "", users |-> store]
Thrown(message, store) == [ok |-> FALSE, error |-> message, users |-> store]

\* `await user.save()` of a loaded document with no other writer in between:
\* validation, then the pre-save hook, then the write.
save(store, docs, id, doc) ==
  IF ~validRole(doc.role)
  THEN Thrown("ValidationError", store)
  ELSE Resolved([store EXCEPT ![id] = preSave(doc, docs)])

(***************************************************************************)
(* RoleManagementService (part_020), each handler run to completion on the  *)
(* store it is given.                                                       *)
(***************************************************************************)
\* assignRole without the reset of user.permissions (part_020:43 left out).
assignRoleKeepingPermissions(store, docs, userId, newRole, assignedBy) ==
  LET user == store[userId]
      assigner == store[assignedBy]
  IN  IF ~user.exists THEN Thrown("User not found", store)
      ELSE IF ~assigner.exists THEN Thrown("Assigner not found", store)
      ELSE IF ~canManageUser(orStudent(assigner.role), orStudent(user.role))
      THEN Thrown("Insufficient privileges to change user role", store)
      ELSE IF ~canManageUser(orStudent(assigner.role), newRole)
      THEN Thrown("Cannot assign role higher than or equal to your own", store)
      ELSE save(store, docs, userId, [user EXCEPT !.role = newRole])

\* part_020:16-46.
assignRole(store, docs, userId, newRole, assignedBy) ==
  LET user == store[userId]
      assigner == store[assignedBy]
  IN  IF ~user.exists THEN Thrown("User not found", store)
      ELSE IF ~assigner.exists THEN Thrown("Assigner not found", store)
      ELSE IF ~canManageUser(orStudent(assigner.role), orStudent(user.role))
      THEN Thrown("Insufficient privileges to change user role", store)
      ELSE IF ~canManageUser(orStudent(assigner.role), newRole)
      THEN Thrown("Cannot assign role higher than or equal to your own", store)
      ELSE save(store, docs, userId,
                [user EXCEPT !.role = newRole,
                             !.permissions = getRolePermissions(newRole)])

\* addCustomPermissions without its check of the assigner's role.
addCustomPermissionsUnchecked(store, docs, userId, permissions, assignedBy) ==
  LET user == store[userId]
      assigner == store[assignedBy]
  IN  IF ~user.exists THEN Thrown("User not found", store)
      ELSE IF ~assigner.exists THEN Thrown("Assigner not found", store)
      ELSE save(store, docs, userId,
                [user EXCEPT !.permissions = user.permissions \cup permissions])

\* part_020:51-77.
addCustomPermissions(store, docs, userId, permissions, assignedBy) ==
  LET user == store[userId]
      assigner == store[assignedBy]
  IN  IF ~user.exists THEN Thrown("User not found", store)
      ELSE IF ~assigner.exists THEN Thrown("Assigner not found", store)
      ELSE IF orStudent(assigner.role) \notin {"admin", "super-admin"}
      THEN Thrown("Only admins can assign custom permissions", store)
      ELSE save(store, docs, userId,
                [user EXCEPT !.permissions = user.permissions \cup permissions])

\* A removal that keeps nothing of the list, role grant or not.
filteredWithoutRoleExemption(user, permissions) ==
  {permission \in user.permissions : permission \notin permissions}

\* part_020:97-104: the permissions kept by removeCustomPermissions, those not asked to
\* be removed and those of the user's role.
filtered(user, permissions) ==
  LET rolePermissions == getRolePermissions(orStudent(user.role))
  IN  {permission \in user.permissions :
         permission \notin permissions \/ permission \in rolePermissions}

\* part_020:82-110.
removeCustomPermissions(store, docs, userId, permissions, removedBy) ==
  LET user == store[userId]
      remover == store[removedBy]
  IN  IF ~user.exists THEN Thrown("User not found", store)
      ELSE IF ~remover.exists THEN Thrown("Remover not found", store)
      ELSE IF orStudent(remover.role) \notin {"admin", "super-admin"}
      THEN Thrown("Only admins can remove custom permissions", store)
      ELSE save(store, docs, userId,
                [user EXCEPT !.permissions = filtered(user, permissions)])

\* resetToRoleDefaults without its canManageUser check.
resetToRoleDefaultsUnchecked(store, docs, userId, resetBy) ==
  LET user == store[userId]
      resetter == store[resetBy]
  IN  IF ~user.exists THEN Thrown("User not found", store)
      ELSE IF ~resetter.exists THEN Thrown("Resetter not found", store)
      ELSE save(store, docs, userId,
                [user EXCEPT !.permissions = getRolePermissions(orStudent(user.role))])

\* part_020:115-135.
resetToRoleDefaults(store, docs, userId, resetBy) ==
  LET user == store[userId]
      resetter == store[resetBy]
  IN  IF ~user.exists THEN Thrown("User not found", store)
      ELSE IF ~resetter.exists THEN Thrown("Resetter not found", store)
      ELSE IF ~canManageUser(orStudent(resetter.role), orStudent(user.role))
      THEN Thrown("Insufficient privileges to reset user permissions", store)
      ELSE save(store, docs, userId,
                [user EXCEPT !.permissions = getRolePermissions(orStudent(user.role))])

\* A loop that stops at the first target whose assignRole throws.
RECURSIVE bulkLoopAborting(_, _, _, _, _, _, _)
bulkLoopAborting(store, docs, userIds, i, newRole, assignedBy, results) ==
  IF i > Len(userIds)
  THEN [ok |-> TRUE, error |-> "", users |-> store,
        success |-> results.success, failed |-> results.failed]
  ELSE LET r == assignRole(store, docs, userIds[i], newRole, assignedBy)
       IN  IF r.ok
           THEN bulkLoopAborting(r.users, docs, userIds, i + 1, newRole, assignedBy,
                                 [results EXCEPT !.success = Append(@, userIds[i])])
           ELSE [ok |-> TRUE, error |-> "", users |-> store, success |-> results.success,
                 failed |-> Append(results.failed, [userId |-> userIds[i], error |-> r.error])]

\* part_020:204-214, the loop of bulkAssignRole over userIds[i..]: each assignRole runs
\* on the store its predecessors left; a throw is caught and recorded.
RECURSIVE bulkLoop(_, _, _, _, _, _, _)
bulkLoop(store, docs, userIds, i, newRole, assignedBy, results) ==
  IF i > Len(userIds)
  THEN [ok |-> TRUE, error |-> "", users |-> store,
        success |-> results.success, failed |-> results.failed]
  ELSE LET r == assignRole(store, docs, userIds[i], newRole, assignedBy)
       IN  bulkLoop(r.users, docs, userIds, i + 1, newRole, assignedBy,
                    IF r.ok
                    THEN [results EXCEPT !.success = Append(@, userIds[i])]
                    ELSE [results EXCEPT
                            !.failed = Append(@, [userId |-> userIds[i], error |-> r.error])])

\* part_020:182-217.
bulkAssignRole(store, docs, userIds, newRole, assignedBy) ==
  LET assigner == store[assignedBy]
      thrown(message) ==
        [ok |-> FALSE, error |-> message, users |-> store, success |-> <<>>, failed |-> <<>>]
  IN  IF ~assigner.exists THEN thrown("Assigner not found")
      ELSE IF orStudent(assigner.role) \notin {"admin", "super-admin"}
      THEN thrown("Only admins can perform bulk role assignments")
      ELSE bulkLoop(store, docs, userIds, 1, newRole, assignedBy,
                    [success |-> <<>>, failed |-> <<>>])

\* The documents User.find(query) matches (part_020:159-171): `role` equal to the role
\* filter, `permissions` holding one of the listed permissions; an absent filter (NoRole,
\* the empty list) matches every document.
find(store, filters) ==
  {id \in DOMAIN store :
     /\ store[id].exists
     /\ filters.role # NoRole => store[id].role = filters.role
     /\ filters.permissions # {} => store[id].permissions \cap filters.permissions # {}}

\* getUsersWithRoles without the filter on the requester's seniority.
getUsersWithRolesUnfiltered(store, requestedBy, filters) ==
  LET requester == store[requestedBy]
  IN  IF ~requester.exists THEN Thrown("Requester not found", store) @@ [returned |-> {}]
      ELSE IF ~methods_hasAnyPermission(requester, {"user:view", "user:manage_roles"})
      THEN Thrown("Insufficient permissions to view user roles", store) @@ [returned |-> {}]
      ELSE Resolved(store) @@ [returned |-> find(store, filters)]

\* part_020:143-177.
getUsersWithRoles(store, requestedBy, filters) ==
  LET requester == store[requestedBy]
  IN  IF ~requester.exists THEN Thrown("Requester not found", store) @@ [returned |-> {}]
      ELSE IF ~methods_hasAnyPermission(requester, {"user:view", "user:manage_roles"})
      THEN Thrown("Insufficient permissions to view user roles", store) @@ [returned |-> {}]
      ELSE Resolved(store) @@
             [returned |->
                {id \in find(store, filters) :
                   \/ canManageUser(orStudent(requester.role), store[id].role)
                   \/ id = requestedBy}]

\* No permission analysis was returned.
NoAnalysis ==
  [role |-> NoRole, rolePermissions |-> {}, customPermissions |-> {}, allPermissions |-> {},
   hasRolePermissions |-> 0, hasCustomPermissions |-> 0, totalPermissions |-> 0]

\* part_020:263-291.  The lengths are those of arrays that hold each permission once.
getPermissionAnalysis(store, userId, requestedBy, isAdmin) ==
  LET user == store[userId]
      requester == store[requestedBy]
      rolePermissions == getRolePermissions(orStudent(user.role))
      customPermissions == {p \in user.permissions : p \notin rolePermissions}
  IN  IF ~user.exists \/ ~requester.exists
      THEN Thrown("User not found", store) @@ [analysis |-> NoAnalysis]
      ELSE IF ~isAdmin /\ userId # requestedBy
                /\ ~methods_hasPermission(requester, "user:view")
      THEN Thrown("Insufficient permissions to view user permissions", store)
             @@ [analysis |-> NoAnalysis]
      ELSE Resolved(store) @@
             [analysis |->
                [role |-> user.role,
                 rolePermissions |-> rolePermissions,
                 customPermissions |-> customPermissions,
                 allPermissions |-> user.permissions,
                 hasRolePermissions |-> Cardinality(rolePermissions),
                 hasCustomPermissions |-> Cardinality(customPermissions),
                 totalPermissions |-> Cardinality(user.permissions)]]

\* part_020:236-258.
validateRoleTransition(currentRole, newRole, assignerRole) ==
  IF ~canManageUser(assignerRole, newRole)
  THEN [valid |-> FALSE, error |-> "Cannot assign role higher than or equal to your own"]
  ELSE IF ~canManageUser(assignerRole, currentRole)
  THEN [valid |-> FALSE, error |-> "Cannot modify user with higher or equal role"]
  ELSE [valid |-> TRUE, error |-> ""]

(***************************************************************************)
(* UserManagementController (user-management.controller.ts).  A request     *)
(* body is a function whose domain holds the fields the client sent.        *)
(***************************************************************************)
\* user-management.controller.ts:9-56.  The new document gets a fresh id; name, email
\* and password are not modelled.  User.create validates, runs the pre-save hook on a
\* document whose `permissions` and `roles` are the empty schema defaults, and inserts.
createUser(store, docs, id, body) ==
  LET role == IF "role" \in DOMAIN body /\ body.role # NoRole THEN body.role ELSE "user"
      permissions == IF "permissions" \in DOMAIN body THEN body.permissions ELSE {}
  IN  save(store, docs, id,
           [exists |-> TRUE, role |-> role, roles |-> {}, permissions |-> {},
            extraPermissions |-> permissions])

\* user-management.controller.ts:138-172.  findByIdAndUpdate applies the update in the
\* database (runValidators checks the enum of `role`); no document is loaded and saved,
\* so the pre-save hook does not run.
updateUser(store, userId, body) ==
  IF "role" \in DOMAIN body /\ ~validRole(body.role)
  THEN Thrown("ValidationError", store)
  ELSE IF ~store[userId].exists
  THEN Thrown("User not found", store)
  ELSE Resolved([store EXCEPT ![userId] =
         [@ EXCEPT !.role = IF "role" \in DOMAIN body THEN body.role ELSE @,
                   !.extraPermissions =
                     IF "permissions" \in DOMAIN body THEN body.permissions ELSE @]])

\* user-management.controller.ts:178-194.
deleteUser(store, userId) ==
  IF ~store[userId].exists
  THEN Thrown("User not found", store)
  ELSE Resolved([store EXCEPT ![userId] = NoDoc])

(***************************************************************************)
(* Tokens and the two authentication middlewares: middleware/enhanced-auth  *)
(* (part_019) and middleware/auth (part_018).  A middleware answers with an *)
(* HTTP status, or with 0 when it calls next().                              *)
(***************************************************************************)
\* No token is sent with the request.
NoCredential == [issued |-> FALSE, id |-> "", role |-> NoRole, permissions |-> {}]

\* authToken.ts:6-17: the payload carries the id, role and permissions of the document
\* as stored at login.
signAuthToken(id, user) ==
  [issued |-> TRUE, id |-> id, role |-> user.role, permissions |-> user.permissions]

\* req.user before authenticate has set it.
NoUser == [id |-> "", role |-> NoRole, permissions |-> {}]

\* The document findById(id) resolves to; ids outside the collection resolve to null.
findById(store, id) == IF id \in DOMAIN store THEN store[id] ELSE NoDoc

\* part_019:26-67.  A failing findById is caught and answered with 401; a null dbUser
\* leaves the role and permissions of the token in req.user.
enhancedAuthenticate(token, store, storeUp) ==
  IF ~token.issued THEN [status |-> 401, user |-> NoUser]
  ELSE IF ~storeUp THEN [status |-> 401, user |-> NoUser]
  ELSE LET dbUser == findById(store, token.id)
       IN  [status |-> 0,
            user |-> [id |-> token.id,
                      role |-> IF dbUser.exists THEN dbUser.role ELSE token.role,
                      permissions |-> IF dbUser.exists THEN dbUser.permissions
                                      ELSE token.permissions]]

\* part_018:17-64.  The role is always the token's; the permissions are the stored ones
\* unless dbUser is null.
legacyAuthenticate(token, store, storeUp) ==
  IF ~token.issued THEN [status |-> 401, user |-> NoUser]
  ELSE IF ~storeUp THEN [status |-> 401, user |-> NoUser]
  ELSE LET dbUser == findById(store, token.id)
       IN  [status |-> 0,
            user |-> [id |-> token.id,
                      role |-> token.role,
                      permissions |-> IF dbUser.exists THEN dbUser.permissions
                                      ELSE token.permissions]]

Variants == {"enhanced", "legacy"}

authenticate(variant, token, store, storeUp) ==
  IF variant = "enhanced" THEN enhancedAuthenticate(token, store, storeUp)
  ELSE legacyAuthenticate(token, store, storeUp)

\* part_019:73-87.
enhancedAuthorize(user, allowedRoles) ==
  IF user.role = NoRole THEN 401
  ELSE IF user.role \notin allowedRoles THEN 403
  ELSE 0

\* part_018:70-84.
legacyAuthorize(user, allowedRoles) ==
  IF user.role = NoRole THEN 401
  ELSE IF user.role = "super-admin" THEN 0
  ELSE IF user.role \notin allowedRoles THEN 403
  ELSE 0

\* An all-of gate that is content with one of the required permissions.
requirePermissionsContentWithOne(user, required) ==
  IF user.role = "super-admin" THEN 0
  ELSE IF {p \in required : p \in user.permissions} = {} THEN 403
  ELSE 0

\* part_018:107-112.
adminOnly(user) == IF user.role # "admin" THEN 403 ELSE 0

\* part_019:93-108.
enhancedRequirePermissions(user, required) ==
  IF user.role = "super-admin" THEN 0
  ELSE IF {p \in required : p \notin user.permissions} # {} THEN 403
  ELSE 0

\* part_018:90-102.
legacyRequirePermissions(user, required) ==
  IF {p \in required : p \notin user.permissions} # {} THEN 403 ELSE 0

\* part_019:114-130.
requireAnyPermission(user, permissions) ==
  IF user.role = "super-admin" THEN 0
  ELSE IF ~hasAnyPermission(user.permissions, permissions) THEN 403
  ELSE 0

\* permission.ts:16-37, after the authenticate of part_018, whose req.user.hasPermission
\* is includes on the permissions it loaded (part_018:54-57).
permission_requirePermission(user, permission) ==
  IF user.id = "" THEN 401
  ELSE IF permission \notin user.permissions THEN 403
  ELSE 0

\* permission.ts:42-64.
permission_requireAnyPermission(user, permissions) ==
  IF user.id = "" THEN 401
  ELSE IF ~(\E permission \in permissions : permission \in user.permissions) THEN 403
  ELSE 0

\* permission.ts:69-91.
permission_requireAllPermissions(user, permissions) ==
  IF user.id = "" THEN 401
  ELSE IF ~(\A permission \in permissions : permission \in user.permissions) THEN 403
  ELSE 0

\* The permissions listed in the body of a 403 of a permission gate: `missing` and
\* `required` (part_019:100-105), `missing` (part_018:96-99), `required`
\* (part_019:122-127), `required`, `requiredAny`, `requiredAll` (permission.ts:28-32,
\* 57-61, 87-91).  Other answers list none.
denialNames(gate, status, user, required) ==
  IF status # 403 THEN {}
  ELSE IF gate = "legacy requirePermissions"
  THEN {p \in required : p \notin user.permissions}
  ELSE required

\* part_019:136-150.
requireResourceManagement(user, resourceType) ==
  LET manageOwn == resourceType \o ":manage_own"
      manageAll == resourceType \o ":manage_all"
  IN  IF ~hasAnyPermission(user.permissions, {manageOwn, manageAll}) THEN 403 ELSE 0

\* No id in the request parameters.
NoId == ""

\* part_019:156-224.  No resource is ever loaded: `resource` stays undefined, so a
\* principal without manage_all gets 403 for courses and blogs and 404 for the rest.
ensureOwnershipOrManageAll(user, resourceType, resourceId) ==
  IF hasPermission(user.permissions, resourceType \o ":manage_all") THEN 0
  ELSE IF resourceId = NoId THEN 400
  ELSE IF resourceType = "course" THEN 403
  ELSE IF resourceType = "blog" THEN 403
  ELSE 404

\* ownership.ts:5-22.  `post` is the blog post findById resolves to.
ensureOwnerOrAdmin(user, post) ==
  IF user.role = "admin" THEN 0
  ELSE IF ~post.exists THEN 404
  ELSE IF post.owner # user.id THEN 403
  ELSE 0

\* part_019:287-340.  A failing findById is caught and answered with 500.
requireUserManagement(manager, targetUserId, store, storeUp) ==
  IF targetUserId = NoId THEN 400
  ELSE IF manager.id = targetUserId THEN 0
  ELSE IF ~hasAnyPermission(manager.permissions,
                            {"user:manage_roles", "user:edit", "user:delete"}) THEN 403
  ELSE IF ~storeUp THEN 500
  ELSE IF ~findById(store, targetUserId).exists THEN 404
  ELSE IF ~canManageUser(manager.role, findById(store, targetUserId).role) THEN 403
  ELSE 0

(***************************************************************************)
(* Inputs.                                                                 *)
(***************************************************************************)
\* Role names a client sends: valid ones across the hierarchy and "agent", which the
\* signup allow-list of user/controller.ts:23 names but the schema enum does not hold.
RoleInputs == {"student", "editor", "admin", "super-admin", "agent"}

\* Permission lists a client sends.
PermissionInputs == {{"course:view_analytics"}, {"user:edit", "course:manage_all"}}

\* Longest userIds list of a bulk request.
\* The permission lists of permission gates: those above and one that a student with
\* the extra grant course:view_analytics holds in part.
GateLists == PermissionInputs \cup {{"course:view_analytics", "course:manage_all"}}

MaxBulk == 2

\* The userIds lists of bulk requests: two to MaxBulk ids in ascending order.
BulkInputs ==
  {s \in UNION {[1..n -> UserIds] : n \in 2..MaxBulk} :
     \A i, j \in DOMAIN s : i < j => indexOfId(s[i]) < indexOfId(s[j])}

\* Allow-lists of role gates and resource types of resource gates on the routes.
AllowLists == {{"admin"}, {"editor", "admin", "super-admin"}}
ResourceTypes == {"course", "blog", "quiz"}

\* No resource is stored under the requested id.
NoResource == [exists |-> FALSE, id |-> "r0", type |-> "blog", owner |-> ""]

\* The stored resources and their owners.
Resources ==
  {[exists |-> TRUE, id |-> "r1", type |-> "course", owner |-> "u3"],
   [exists |-> TRUE, id |-> "r2", type |-> "blog", owner |-> "u3"],
   [exists |-> TRUE, id |-> "r3", type |-> "quiz", owner |-> "u2"]}

\* Bodies of PUT /admin/users/:userId: the fields present are the ones sent.
UpdateBodies ==
  {[role |-> "super-admin"], [role |-> "student"], [role |-> "agent"],
   [permissions |-> {"user:edit", "course:manage_all"}]}

\* No request is being answered.
Idle ==
  [op |-> "none", actor |-> "u1", target |-> "u1", role |-> NoRole, permissions |-> {},
   targets |-> <<>>, ok |-> TRUE, error |-> "", success |-> <<>>, failed |-> <<>>,
   pre |-> [u \in UserIds |-> NoDoc],
   variant |-> "", token |-> NoCredential, storeUp |-> TRUE, user |-> NoUser,
   status |-> 0, allowed |-> {}, resource |-> NoResource, written |-> <<>>,
   named |-> {}, returned |-> {}, analysis |-> NoAnalysis, runs |-> 0,
   seededFrom |-> {}]

\* The record kept of a handled service call until its response is sent: the operation,
\* its inputs, how it ended and the users collection it started from.
Record(op, actor, target, role, permissions, targets, r) ==
  [Idle EXCEPT !.op = op, !.actor = actor, !.target = target, !.role = role,
               !.permissions = permissions, !.targets = targets,
               !.ok = r.ok, !.error = r.error,
               !.success = IF "success" \in DOMAIN r THEN r.success ELSE <<>>,
               !.failed = IF "failed" \in DOMAIN r THEN r.failed ELSE <<>>,
               !.pre = users]

\* The record kept of a request that went through authenticate and the gates of its
\* route: the token sent, req.user as authenticate left it, and the status a middleware
\* answered with (0 when the handler was reached).
Request(op, variant, token, storeUp, user, status) ==
  [Idle EXCEPT !.op = op, !.variant = variant, !.token = token, !.storeUp = storeUp,
               !.user = user, !.status = status, !.ok = (status = 0), !.pre = users]

\* The first middleware of a chain that does not call next() answers the request.
RECURSIVE chain(_)
chain(statuses) ==
  IF statuses = <<>> THEN 0
  ELSE IF Head(statuses) # 0 THEN Head(statuses)
  ELSE chain(Tail(statuses))

\* The two service calls that run concurrently.
Procs == {"p1", "p2"}

\* A call of one of the four mutations of RoleManagementService on the common target.
Mutations(target) ==
  {[op |-> "assignRole", role |-> r, permissions |-> {}, actor |-> a] :
     r \in RoleInputs, a \in UserIds \ {target}}
  \cup {[op |-> op, role |-> NoRole, permissions |-> ps, actor |-> a] :
          op \in {"addCustomPermissions", "removeCustomPermissions"},
          ps \in PermissionInputs, a \in UserIds \ {target}}
  \cup {[op |-> "resetToRoleDefaults", role |-> NoRole, permissions |-> {}, actor |-> a] :
          a \in UserIds \ {target}}

\* A call that has not started: the document and version it loaded, the document it is
\* about to save and its outcome are still to come.
NotStarted(m) ==
  [pc |-> "start", m |-> m, user |-> NoDoc, v |-> 0, doc |-> NoDoc, result |-> ""]

\* No concurrent calls are in progress.
NoConc ==
  [active |-> FALSE, target |-> "u1", vers |-> 0, start |-> [u \in UserIds |-> NoDoc],
   procs |-> [p \in Procs |->
                NotStarted([op |-> "none", role |-> NoRole, permissions |-> {},
                            actor |-> "u1"])]]

\* What the call m assigns to user.permissions before it calls save() (part_020:43,
\* 70-72, 104, 131).
assigned(m, user) ==
  CASE m.op = "assignRole" -> getRolePermissions(m.role)
    [] m.op = "addCustomPermissions" -> user.permissions \cup m.permissions
    [] m.op = "removeCustomPermissions" -> filtered(user, m.permissions)
    [] OTHER -> getRolePermissions(orStudent(user.role))

\* The service call m on `target`, run to completion on `store`.
call(m, target, store, docs) ==
  CASE m.op = "assignRole" -> assignRole(store, docs, target, m.role, m.actor)
    [] m.op = "addCustomPermissions" ->
         addCustomPermissions(store, docs, target, m.permissions, m.actor)
    [] m.op = "removeCustomPermissions" ->
         removeCustomPermissions(store, docs, target, m.permissions, m.actor)
    [] OTHER -> resetToRoleDefaults(store, docs, target, m.actor)

\* A document as save() leaves it when created with the given fields.
Saved(role, roles, extraPermissions) ==
  preSave([exists |-> TRUE, role |-> role, roles |-> roles, permissions |-> {},
           extraPermissions |-> extraPermissions], SeededRoles)

\* Initial stores: a super-admin, an admin, and a third principal that is absent, a
\* student with an extra grant, or a multi-role record holding the editor Role document
\* and the same extra grant.
InitUsers ==
  {[u \in UserIds |->
      CASE u = "u1" -> Saved("super-admin", {}, {})
        [] u = "u2" -> Saved("admin", {}, {})
        [] OTHER -> third] :
   third \in {NoDoc,
              Saved("student", {}, {"course:view_analytics"}),
              Saved("user", {"editor"}, {"course:view_analytics"})}}

\* No role comparison has been asked for.
NoComparison ==
  [roleA |-> "user", roleB |-> "user", roleC |-> "user", done |-> FALSE, senior |-> {}]

\* No permission query has been made.
NoCheck ==
  [target |-> "u1", permission |-> "", permissions |-> {}, on |-> {}, done |-> FALSE,
   has |-> FALSE, hasAny |-> FALSE, hasAll |-> FALSE,
   methodHas |-> FALSE, methodHasAny |-> FALSE, methodHasAll |-> FALSE]

Init ==
  /\ users \in InitUsers
  /\ roleDocs = SeededRoles
  /\ credential = NoCredential
  /\ last = Idle
  /\ conc = NoConc
  /\ compared = NoComparison
  /\ checked = NoCheck

(***************************************************************************)
(* Requests handled one at a time: a handler runs to completion, then its   *)
(* response is sent, then the next request is taken.                        *)
(***************************************************************************)
CreateUser ==
  \E id \in UserIds, role \in RoleInputs \cup {NoRole},
     permissions \in PermissionInputs \cup {{}} :
    /\ last.op = "none"
    /\ ~users[id].exists
    /\ LET r == createUser(users, roleDocs, id, [role |-> role, permissions |-> permissions])
       IN  /\ users' = r.users
           /\ last' = Record("CreateUser", id, id, role, permissions, <<>>, r)
    /\ UNCHANGED <<roleDocs, credential, conc, compared, checked>>

AssignRole ==
  \E userId \in UserIds, newRole \in RoleInputs, assignedBy \in UserIds :
    /\ last.op = "none"
    /\ LET r == assignRole(users, roleDocs, userId, newRole, assignedBy)
       IN  /\ users' = r.users
           /\ last' = Record("AssignRole", assignedBy, userId, newRole, {}, <<>>, r)
    /\ UNCHANGED <<roleDocs, credential, conc, compared, checked>>

AddExtraPermissions ==
  \E userId \in UserIds, permissions \in PermissionInputs, assignedBy \in UserIds :
    /\ last.op = "none"
    /\ LET r == addCustomPermissions(users, roleDocs, userId, permissions, assignedBy)
       IN  /\ users' = r.users
           /\ last' = Record("AddExtraPermissions", assignedBy, userId, NoRole,
                             permissions, <<>>, r)
    /\ UNCHANGED <<roleDocs, credential, conc, compared, checked>>

RemoveExtraPermissions ==
  \E userId \in UserIds, permissions \in PermissionInputs, removedBy \in UserIds :
    /\ last.op = "none"
    /\ LET r == removeCustomPermissions(users, roleDocs, userId, permissions, removedBy)
       IN  /\ users' = r.users
           /\ last' = Record("RemoveExtraPermissions", removedBy, userId, NoRole,
                             permissions, <<>>, r)
    /\ UNCHANGED <<roleDocs, credential, conc, compared, checked>>

ResetToRoleDefaults ==
  \E userId \in UserIds, resetBy \in UserIds :
    /\ last.op = "none"
    /\ LET r == resetToRoleDefaults(users, roleDocs, userId, resetBy)
       IN  /\ users' = r.users
           /\ last' = Record("ResetToRoleDefaults", resetBy, userId, NoRole, {}, <<>>, r)
    /\ UNCHANGED <<roleDocs, credential, conc, compared, checked>>

BulkAssignRole ==
  \E userIds \in BulkInputs, newRole \in RoleInputs, assignedBy \in UserIds :
    /\ last.op = "none"
    /\ LET r == bulkAssignRole(users, roleDocs, userIds, newRole, assignedBy)
       IN  /\ users' = r.users
           /\ last' = Record("BulkAssignRole", assignedBy, assignedBy, newRole, {},
                             userIds, r)
    /\ UNCHANGED <<roleDocs, credential, conc, compared, checked>>

\* role-management.controller.ts:268-313, the dry run of a role change: the target's
\* role is read from the store, newRole comes from the body and the assigner's role from
\* req.user; "User not found" is answered without calling the service.
ValidateRoleTransition ==
  \E userId \in UserIds, newRole \in RoleInputs, assigner \in UserIds :
    /\ last.op = "none"
    /\ users[assigner].exists
    /\ LET user == users[userId]
           validation == validateRoleTransition(user.role, newRole, users[assigner].role)
           r == IF ~user.exists THEN Thrown("User not found", users)
                ELSE [ok |-> validation.valid, error |-> validation.error, users |-> users]
       IN  /\ users' = r.users
           /\ last' = Record("ValidateRoleTransition", assigner, userId, newRole, {},
                             <<>>, r)
    /\ UNCHANGED <<roleDocs, credential, conc, compared, checked>>

\* Query filters of GET /admin/users/roles (role-management.controller.ts:139-150).
Filters ==
  [role : {NoRole, "student", "admin"}, permissions : {{}, {"course:view_analytics"}}]

\* role-management.controller.ts:139-169 calling part_020:143-177.
GetUsersWithRoles ==
  \E requestedBy \in UserIds, filters \in Filters :
    /\ last.op = "none"
    /\ LET r == getUsersWithRoles(users, requestedBy, filters)
       IN  /\ users' = r.users
           /\ last' = [Record("GetUsersWithRoles", requestedBy, requestedBy, filters.role,
                              filters.permissions, <<>>, r)
                         EXCEPT !.returned = r.returned]
    /\ UNCHANGED <<roleDocs, credential, conc, compared, checked>>

\* role-management.controller.ts:238-262 calling part_020:263-291; other callers may
\* pass isAdmin.
GetPermissionAnalysis ==
  \E userId \in UserIds, requestedBy \in UserIds, isAdmin \in BOOLEAN :
    /\ last.op = "none"
    /\ LET r == getPermissionAnalysis(users, userId, requestedBy, isAdmin)
       IN  /\ users' = r.users
           /\ last' = [Record("GetPermissionAnalysis", requestedBy, userId, NoRole, {},
                              <<>>, r)
                         EXCEPT !.analysis = r.analysis]
    /\ UNCHANGED <<roleDocs, credential, conc, compared, checked>>

\* The response of the handled request is sent.
Respond ==
  /\ last.op # "none"
  /\ last' = Idle
  /\ UNCHANGED <<users, roleDocs, credential, conc, compared, checked>>

\* Principal creations and the RoleManagementService mutations.
NextService ==
  \/ CreateUser
  \/ AssignRole
  \/ AddExtraPermissions
  \/ RemoveExtraPermissions
  \/ ResetToRoleDefaults
  \/ BulkAssignRole
  \/ ValidateRoleTransition
  \/ GetUsersWithRoles
  \/ GetPermissionAnalysis
  \/ Respond

SpecService == Init /\ [][NextService]_vars

(***************************************************************************)
(* Login and requests through authenticate and the gates.                   *)
(***************************************************************************)
\* user/controller.ts login: a token is signed from the stored document and replaces
\* the one the client held.
Login ==
  \E id \in UserIds :
    /\ last.op = "none"
    /\ users[id].exists
    /\ credential # signAuthToken(id, users[id])
    /\ credential' = signAuthToken(id, users[id])
    /\ UNCHANGED <<users, roleDocs, last, conc, compared, checked>>

\* A route behind authenticate and authorize(...allowedRoles), in either middleware.
AuthorizeRequest ==
  \E variant \in Variants, allowedRoles \in AllowLists,
     storeUp \in BOOLEAN :
    /\ last.op = "none"
    /\ LET token == credential
           a == authenticate(variant, token, users, storeUp)
           gate == IF variant = "enhanced" THEN enhancedAuthorize(a.user, allowedRoles)
                   ELSE legacyAuthorize(a.user, allowedRoles)
       IN  last' = [Request("authorize", variant, token, storeUp, a.user,
                            chain(<<a.status, gate>>))
                      EXCEPT !.allowed = allowedRoles]
    /\ UNCHANGED <<users, roleDocs, credential, conc, compared, checked>>

\* A route behind authenticate and requirePermissions(...required), in either middleware.
RequirePermissionsRequest ==
  \E variant \in Variants, required \in GateLists,
     storeUp \in BOOLEAN :
    /\ last.op = "none"
    /\ LET token == credential
           a == authenticate(variant, token, users, storeUp)
           gate == IF variant = "enhanced" THEN enhancedRequirePermissions(a.user, required)
                   ELSE legacyRequirePermissions(a.user, required)
       IN  last' = [Request("requirePermissions", variant, token, storeUp, a.user,
                            chain(<<a.status, gate>>))
                      EXCEPT !.permissions = required,
                             !.named = IF a.status # 0 THEN {}
                                       ELSE denialNames(variant \o " requirePermissions",
                                                        gate, a.user, required)]
    /\ UNCHANGED <<users, roleDocs, credential, conc, compared, checked>>

\* A route behind the enhanced authenticate and requireAnyPermission(...permissions).
RequireAnyPermissionRequest ==
  \E permissions \in GateLists, storeUp \in BOOLEAN :
    /\ last.op = "none"
    /\ LET token == credential
           a == enhancedAuthenticate(token, users, storeUp)
           gate == requireAnyPermission(a.user, permissions)
       IN  last' = [Request("requireAnyPermission", "enhanced", token, storeUp, a.user,
                            chain(<<a.status, gate>>))
                      EXCEPT !.permissions = permissions,
                             !.named = IF a.status # 0 THEN {}
                                       ELSE denialNames("requireAnyPermission", gate,
                                                        a.user, permissions)]
    /\ UNCHANGED <<users, roleDocs, credential, conc, compared, checked>>

\* The gates of permission.ts as the course routes mount them (part_002:862-871,
\* 908-921): behind the authenticate of part_018.
PermissionGates == {"requirePermission", "requireAnyPermission", "requireAllPermissions"}

PermissionMiddlewareRequest ==
  \E gateName \in PermissionGates, permissions \in GateLists, storeUp \in BOOLEAN :
    /\ last.op = "none"
    /\ gateName = "requirePermission" => Cardinality(permissions) = 1
    /\ LET token == credential
           a == legacyAuthenticate(token, users, storeUp)
           gate == CASE gateName = "requirePermission" ->
                          permission_requirePermission(
                            a.user, CHOOSE permission \in permissions : TRUE)
                     [] gateName = "requireAnyPermission" ->
                          permission_requireAnyPermission(a.user, permissions)
                     [] OTHER -> permission_requireAllPermissions(a.user, permissions)
       IN  last' = [Request("permission." \o gateName, "legacy", token, storeUp, a.user,
                            chain(<<a.status, gate>>))
                      EXCEPT !.permissions = permissions,
                             !.named = IF a.status # 0 THEN {}
                                       ELSE denialNames("permission." \o gateName, gate,
                                                        a.user, permissions)]
    /\ UNCHANGED <<users, roleDocs, credential, conc, compared, checked>>

\* A gate run on a request on which no authenticate has set req.user (the middleware
\* mounted or called on its own): req.user is undefined.
UnauthenticatedGates ==
  {"authorize", "requirePermissions", "requireAnyPermission", "requireResourceManagement",
   "adminOnly", "permission.requirePermission"}

GateWithoutAuthenticate ==
  \E gateName \in UnauthenticatedGates, variant \in Variants, allowedRoles \in AllowLists,
     permissions \in GateLists, resourceType \in ResourceTypes :
    /\ last.op = "none"
    /\ gateName \in {"requireAnyPermission", "requireResourceManagement"}
         => variant = "enhanced"
    /\ gateName \in {"adminOnly", "permission.requirePermission"} => variant = "legacy"
    /\ gateName = "permission.requirePermission" => Cardinality(permissions) = 1
    /\ gateName # "authorize" => allowedRoles = {"admin"}
    /\ gateName \notin {"requirePermissions", "requireAnyPermission",
                        "permission.requirePermission"}
         => permissions = {"course:view_analytics"}
    /\ gateName # "requireResourceManagement" => resourceType = "course"
    /\ LET status ==
             CASE gateName = "authorize" ->
                    IF variant = "enhanced" THEN enhancedAuthorize(NoUser, allowedRoles)
                    ELSE legacyAuthorize(NoUser, allowedRoles)
               [] gateName = "requirePermissions" ->
                    IF variant = "enhanced"
                    THEN enhancedRequirePermissions(NoUser, permissions)
                    ELSE legacyRequirePermissions(NoUser, permissions)
               [] gateName = "requireAnyPermission" ->
                    requireAnyPermission(NoUser, permissions)
               [] gateName = "requireResourceManagement" ->
                    requireResourceManagement(NoUser, resourceType)
               [] gateName = "adminOnly" -> adminOnly(NoUser)
               [] OTHER ->
                    permission_requirePermission(
                      NoUser, CHOOSE permission \in permissions : TRUE)
       IN  last' = [Request(gateName, variant, NoCredential, TRUE, NoUser, status)
                      EXCEPT !.allowed = IF gateName = "authorize" THEN allowedRoles ELSE {},
                             !.permissions = permissions,
                             !.resource = [NoResource EXCEPT !.type = resourceType],
                             !.error = "no authenticate"]
    /\ UNCHANGED <<users, roleDocs, credential, conc, compared, checked>>

\* A route behind the enhanced authenticate and requireResourceManagement(resourceType).
RequireResourceManagementRequest ==
  \E resourceType \in ResourceTypes, storeUp \in BOOLEAN :
    /\ last.op = "none"
    /\ LET token == credential
           a == enhancedAuthenticate(token, users, storeUp)
       IN  last' = [Request("requireResourceManagement", "enhanced", token, storeUp,
                            a.user,
                            chain(<<a.status,
                                    requireResourceManagement(a.user, resourceType)>>))
                      EXCEPT !.resource = [NoResource EXCEPT !.type = resourceType]]
    /\ UNCHANGED <<users, roleDocs, credential, conc, compared, checked>>

\* A route /:id behind the enhanced authenticate and ensureOwnershipOrManageAll(type).
EnsureOwnershipRequest ==
  \E resource \in Resources, storeUp \in BOOLEAN :
    /\ last.op = "none"
    /\ LET a == enhancedAuthenticate(credential, users, storeUp)
       IN  last' = [Request("ensureOwnershipOrManageAll", "enhanced", credential, storeUp,
                            a.user,
                            chain(<<a.status,
                                    ensureOwnershipOrManageAll(a.user, resource.type,
                                                               resource.id)>>))
                      EXCEPT !.resource = resource]
    /\ UNCHANGED <<users, roleDocs, credential, conc, compared, checked>>

\* A blog route /:id behind the legacy authenticate and ensureOwnerOrAdmin.
EnsureOwnerOrAdminRequest ==
  \E post \in {r \in Resources : r.type = "blog"} \cup {NoResource}, storeUp \in BOOLEAN :
    /\ last.op = "none"
    /\ LET a == legacyAuthenticate(credential, users, storeUp)
       IN  last' = [Request("ensureOwnerOrAdmin", "legacy", credential, storeUp, a.user,
                            chain(<<a.status, ensureOwnerOrAdmin(a.user, post)>>))
                      EXCEPT !.resource = post]
    /\ UNCHANGED <<users, roleDocs, credential, conc, compared, checked>>

\* The tokens an admin request is sent with: the one the client holds, or one issued to
\* a stored principal just before the request.
Tokens ==
  {credential}
    \cup {signAuthToken(id, users[id]) : id \in {u \in UserIds : users[u].exists}}

\* user-management.routes.ts:40-45: PUT /admin/users/:userId.
UpdateUser ==
  \E userId \in UserIds, body \in UpdateBodies, token \in Tokens, storeUp \in BOOLEAN :
    /\ last.op = "none"
    /\ LET a == enhancedAuthenticate(token, users, storeUp)
           status == chain(<<a.status,
                             enhancedRequirePermissions(a.user, {"user:edit"}),
                             requireUserManagement(a.user, userId, users, storeUp)>>)
           r == updateUser(users, userId, body)
       IN  /\ users' = IF status = 0 THEN r.users ELSE users
           /\ last' = [Request("UpdateUser", "enhanced", token, storeUp, a.user,
                               status)
                         EXCEPT !.target = userId,
                                !.role = IF "role" \in DOMAIN body THEN body.role
                                         ELSE NoRole,
                                !.permissions = IF "permissions" \in DOMAIN body
                                                THEN body.permissions ELSE {},
                                !.ok = (status = 0 /\ r.ok),
                                !.error = IF status = 0 THEN r.error ELSE "denied"]
    /\ UNCHANGED <<roleDocs, credential, conc, compared, checked>>

\* user-management.routes.ts:48-53: DELETE /admin/users/:userId.
DeleteUser ==
  \E userId \in UserIds, token \in Tokens, storeUp \in BOOLEAN :
    /\ last.op = "none"
    /\ LET a == enhancedAuthenticate(token, users, storeUp)
           status == chain(<<a.status,
                             enhancedRequirePermissions(a.user, {"user:delete"}),
                             requireUserManagement(a.user, userId, users, storeUp)>>)
           r == deleteUser(users, userId)
       IN  /\ users' = IF status = 0 THEN r.users ELSE users
           /\ last' = [Request("DeleteUser", "enhanced", token, storeUp, a.user,
                               status)
                         EXCEPT !.target = userId,
                                !.ok = (status = 0 /\ r.ok),
                                !.error = IF status = 0 THEN r.error ELSE "denied"]
    /\ UNCHANGED <<roleDocs, credential, conc, compared, checked>>

\* Logins, the admin user routes and gated requests.
NextAdmin ==
  \/ Login
  \/ UpdateUser
  \/ DeleteUser
  \/ AuthorizeRequest
  \/ RequirePermissionsRequest
  \/ RequireAnyPermissionRequest
  \/ PermissionMiddlewareRequest
  \/ GateWithoutAuthenticate
  \/ GetPermissionAnalysis
  \/ RequireResourceManagementRequest
  \/ EnsureOwnershipRequest
  \/ EnsureOwnerOrAdminRequest
  \/ Respond

SpecAdmin == Init /\ [][NextAdmin]_vars

(***************************************************************************)
(* Two service calls on the same target, interleaved at their awaits:       *)
(* findById(userId); findById(actor), the checks and the in-memory changes   *)
(* up to the pre-save hook; the write of save().  The schema leaves          *)
(* versionKey at its default (model.ts:95-108), so a save that sets the      *)
(* `permissions` array is conditional on the version the document was        *)
(* loaded with and increments it; a save that finds another version throws   *)
(* VersionError.  save() writes only the paths that changed.                 *)
(***************************************************************************)
Begin ==
  \E target \in UserIds :
    \E m1 \in Mutations(target), m2 \in Mutations(target) :
      /\ ~conc.active
      /\ last.op = "none"
      /\ conc' = [NoConc EXCEPT !.active = TRUE, !.target = target, !.start = users,
                                !.procs = [p \in Procs |->
                                             NotStarted(IF p = "p1" THEN m1 ELSE m2)]]
      /\ UNCHANGED <<users, roleDocs, credential, last, compared, checked>>

\* `await User.findById(userId)`.
Load ==
  \E p \in Procs :
    /\ conc.active
    /\ conc.procs[p].pc = "start"
    /\ conc' = [conc EXCEPT !.procs[p].pc = "loaded",
                            !.procs[p].user = users[conc.target],
                            !.procs[p].v = conc.vers]
    /\ UNCHANGED <<users, roleDocs, credential, last, compared, checked>>

\* `await User.findById(actor)`, the checks, the changes to the loaded document and the
\* validation and pre-save hook of save(): everything up to the write.
Recompute ==
  \E p \in Procs :
    /\ conc.active
    /\ conc.procs[p].pc = "loaded"
    /\ LET r == call(conc.procs[p].m, conc.target,
                     [users EXCEPT ![conc.target] = conc.procs[p].user], roleDocs)
       IN  conc' = IF r.ok
                   THEN [conc EXCEPT !.procs[p].pc = "computed",
                                     !.procs[p].doc = r.users[conc.target]]
                   ELSE [conc EXCEPT !.procs[p].pc = "done",
                                     !.procs[p].result = r.error]
    /\ UNCHANGED <<users, roleDocs, credential, last, compared, checked>>

\* The write of save(): nothing when no path was modified; `role` alone unconditionally;
\* `permissions` (with `role` when modified) only on the version that was loaded.  A path
\* is modified once an assignment of the handler or of the hook gave it another value.
Save ==
  \E p \in Procs :
    /\ conc.active
    /\ conc.procs[p].pc = "computed"
    /\ LET user == conc.procs[p].user
           doc == conc.procs[p].doc
           roleModified == doc.role # user.role
           permissionsModified ==
             \/ assigned(conc.procs[p].m, user) # user.permissions
             \/ doc.permissions # assigned(conc.procs[p].m, user)
       IN  IF ~roleModified /\ ~permissionsModified
           THEN /\ conc' = [conc EXCEPT !.procs[p].pc = "done", !.procs[p].result = "saved"]
                /\ users' = users
           ELSE IF ~permissionsModified
           THEN /\ conc' = [conc EXCEPT !.procs[p].pc = "done", !.procs[p].result = "saved"]
                /\ users' = [users EXCEPT ![conc.target].role = doc.role]
           ELSE IF conc.vers = conc.procs[p].v
           THEN /\ conc' = [conc EXCEPT !.procs[p].pc = "done",
                                        !.procs[p].result = "saved",
                                        !.vers = @ + 1]
                /\ users' = [users EXCEPT ![conc.target].role = doc.role,
                                          ![conc.target].permissions = doc.permissions]
           ELSE /\ conc' = [conc EXCEPT !.procs[p].pc = "done",
                                        !.procs[p].result = "VersionError"]
                /\ users' = users
    /\ UNCHANGED <<roleDocs, credential, last, compared, checked>>

NextConcurrent ==
  \/ Begin
  \/ Load
  \/ Recompute
  \/ Save

SpecConcurrent == Init /\ [][NextConcurrent]_vars

(***************************************************************************)
(* The role comparison of roles-permissions.ts applied to three roles of    *)
(* the hierarchy, every pair of them in both directions.                    *)
(***************************************************************************)
InitHierarchy ==
  /\ users \in InitUsers
  /\ roleDocs = SeededRoles
  /\ credential = NoCredential
  /\ last = Idle
  /\ conc = NoConc
  /\ \E a \in RoleEnum, b \in RoleEnum, c \in RoleEnum :
       compared = [NoComparison EXCEPT !.roleA = a, !.roleB = b, !.roleC = c]
  /\ checked = NoCheck

\* roles-permissions.ts:519-525 evaluated on every ordered pair of the three roles.
CompareRoles ==
  /\ ~compared.done
  /\ LET roles == {compared.roleA, compared.roleB, compared.roleC}
     IN  compared' = [compared EXCEPT
                        !.done = TRUE,
                        !.senior = {pair \in roles \X roles : canManageUser(pair[1], pair[2])}]
  /\ UNCHANGED <<users, roleDocs, credential, last, conc, checked>>

NextHierarchy == CompareRoles

SpecHierarchy == InitHierarchy /\ [][NextHierarchy]_vars

(***************************************************************************)
(* The pre-save hook and the permission predicates applied to stored        *)
(* records, legacy ones included (user/model.ts, roles-permissions.ts).     *)
(***************************************************************************)
\* roles-permissions.ts:141-244, the catalog in the order of the array.
ALL_PERMISSIONS_LIST ==
  <<"course:view", "course:create", "course:edit", "course:delete", "course:publish",
    "course:unpublish", "course:manage_own", "course:manage_all", "course:enroll_students",
    "course:view_analytics", "module:view", "module:create", "module:edit",
    "module:delete", "module:reorder", "module:manage_own", "module:manage_all",
    "content:view", "content:create", "content:edit", "content:delete", "content:upload",
    "content:download", "content:manage_own", "content:manage_all", "quiz:view",
    "quiz:create", "quiz:edit", "quiz:delete", "quiz:take", "quiz:view_results",
    "quiz:grade", "quiz:manage_own", "quiz:manage_all", "student:view", "student:enroll",
    "student:unenroll", "student:view_progress", "student:manage_progress",
    "student:issue_certificates", "student:communicate", "blog:view", "blog:create",
    "blog:edit", "blog:delete", "blog:publish", "blog:unpublish", "blog:comment",
    "blog:moderate_comments", "blog:manage_own", "blog:manage_all", "internship:view",
    "internship:apply", "internship:manage_applications", "internship:review_applications",
    "internship:accept_reject", "internship:communicate", "internship:manage_program",
    "user:view", "user:create", "user:edit", "user:delete", "user:manage_roles",
    "user:manage_permissions", "user:view_profile", "user:edit_profile",
    "user:impersonate", "analytics:view_basic", "analytics:view_advanced",
    "analytics:export_data", "analytics:view_financial", "system:backup", "system:restore",
    "system:configure", "system:maintenance", "system:logs", "payment:view",
    "payment:process", "payment:refund", "payment:view_reports", "payment:manage_pricing">>

\* The tokens of a set that the catalog does not list, in some order.
RECURSIVE others(_)
others(set) ==
  IF set = {} THEN <<>>
  ELSE LET x == CHOOSE y \in set : TRUE IN <<x>> \o others(set \ {x})

\* An array holding the elements of a set once each: catalog tokens in catalog order,
\* then any others.
spread(set) ==
  SelectSeq(ALL_PERMISSIONS_LIST, LAMBDA permission : permission \in set)
    \o others(set \ ALL_PERMISSIONS)

\* `[...computedPermissions, ...extras, ...manual]` without the Set around it.
arrayKeepingDuplicates(array) == array

\* model.ts:165-170, Array.from(new Set(array)): each value once, at its first position.
RECURSIVE ArrayFromSet(_)
ArrayFromSet(array) ==
  IF Len(array) <= 1 THEN array
  ELSE LET half == Len(array) \div 2
           front == ArrayFromSet(SubSeq(array, 1, half))
           back == ArrayFromSet(SubSeq(array, half + 1, Len(array)))
           seen == {front[i] : i \in DOMAIN front}
       IN  front \o SelectSeq(back, LAMBDA x : x \notin seen)

\* model.ts:142-170, the array the hook assigns to this.permissions.
permissionSet(doc, docs) ==
  LET computedPermissions ==
        IF doc.roles # {}
        THEN UNION {r.permissions : r \in {d \in docs : d.id \in doc.roles}}
        ELSE IF doc.role # NoRole THEN getRolePermissions(doc.role) ELSE {}
  IN  ArrayFromSet(spread(computedPermissions) \o spread(doc.extraPermissions)
                     \o spread(doc.permissions))

\* Records as a collection may hold them before any save of the current code: a role, a
\* roles array, extra grants and manually assigned permissions.
LegacyRecords ==
  [exists : {TRUE},
   role : {"instructor", "student", "editor", "super-admin"},
   roles : {{}, {"editor"}, {"author", "moderator"}},
   extraPermissions : {{}, {"course:view_analytics"}, {"user:edit"}},
   permissions : {{}, {"course:manage_all"}, {"blog:manage_all", "course:view_analytics"}}]

\* The permission lists put to the predicates, the empty one included.
PermissionLists ==
  {{}, {"course:manage_all"}, {"course:manage_own", "course:manage_all"},
   {"course:view_analytics", "user:edit"}}

InitResolve ==
  /\ \E third \in LegacyRecords :
       users = [u \in UserIds |->
                  CASE u = "u1" -> Saved("super-admin", {}, {})
                    [] u = "u2" -> Saved("admin", {}, {})
                    [] OTHER -> third]
  /\ roleDocs = SeededRoles
  /\ credential = NoCredential
  /\ last = Idle
  /\ conc = NoConc
  /\ compared = NoComparison
  /\ \E permissions \in PermissionLists :
       checked = [NoCheck EXCEPT !.target = "u3", !.permission = "course:manage_all",
                                 !.permissions = permissions]

\* user/controller.ts:88-123, verifyEmail: the document is loaded, fields outside the
\* model are set, and it is saved; the pre-save hook recomputes its permissions.
VerifyEmail ==
  \E id \in UserIds :
    /\ last.op = "none"
    /\ users[id].exists
    /\ LET r == save(users, roleDocs, id, users[id])
       IN  /\ users' = r.users
           /\ last' = [Record("VerifyEmail", id, id, NoRole, {}, <<>>, r)
                         EXCEPT !.written = IF r.ok THEN permissionSet(users[id], roleDocs)
                                            ELSE <<>>]
    /\ UNCHANGED <<roleDocs, credential, conc, compared, checked>>

\* roles-permissions.ts:460-484 and model.ts:118-137 applied to the stored permissions
\* of the queried principal.
CheckPermissions ==
  /\ last.op = "none"
  /\ ~checked.done
  /\ LET user == users[checked.target]
     IN  checked' =
           [checked EXCEPT
              !.done = TRUE,
              !.on = user.permissions,
              !.has = hasPermission(user.permissions, checked.permission),
              !.hasAny = hasAnyPermission(user.permissions, checked.permissions),
              !.hasAll = hasAllPermissions(user.permissions, checked.permissions),
              !.methodHas = methods_hasPermission(user, checked.permission),
              !.methodHasAny = methods_hasAnyPermission(user, checked.permissions),
              !.methodHasAll = methods_hasAllPermissions(user, checked.permissions)]
  /\ UNCHANGED <<users, roleDocs, credential, last, conc, compared>>

NextResolve ==
  \/ VerifyEmail
  \/ CheckPermissions
  \/ Respond

SpecResolve == InitResolve /\ [][NextResolve]_vars

(***************************************************************************)
(* Properties of the service mutations run one at a time.                   *)
(***************************************************************************)
\* The seniority order as the specification declares it.
DeclaredOrder ==
  <<"user", "student", "author", "instructor", "editor", "moderator", "admin", "super-admin">>

hierarchyIndex(role) == CHOOSE i \in DOMAIN DeclaredOrder : DeclaredOrder[i] = role

isSenior(roleA, roleB) ==
  /\ \E i \in DOMAIN DeclaredOrder : DeclaredOrder[i] = roleA
  /\ \E i \in DOMAIN DeclaredOrder : DeclaredOrder[i] = roleB
  /\ hierarchyIndex(roleA) > hierarchyIndex(roleB)

permissionsFor(role) == IF role \in RoleEnum THEN ROLE_PERMISSIONS[role] ELSE {}

\* The permissions of the Role documents a principal's `roles` array refers to.
assignedRolePermissions(doc) ==
  UNION {permissionsFor(d.name) : d \in {x \in roleDocs : x.id \in doc.roles}}

\* C1: after any sequence of creations and service mutations every stored principal's
\* effective permissions contain its extraPermissions and the permissions of its
\* assigned role: the legacy role in single-role mode, every Role document of `roles`
\* in multi-role mode.
C1_EffectiveContainsRoleAndExtras ==
  \A u \in UserIds :
    users[u].exists =>
      /\ users[u].extraPermissions \subseteq users[u].permissions
      /\ users[u].roles = {} => permissionsFor(users[u].role) \subseteq users[u].permissions
      /\ users[u].roles # {} => assignedRolePermissions(users[u]) \subseteq users[u].permissions

\* C1 witness: a removal went through on a multi-role principal that holds an extra
\* grant and a permission of one of its Role documents that was asked to be removed.
C1_Witness ==
  /\ last.op = "RemoveExtraPermissions" /\ last.ok
  /\ users[last.target].roles # {}
  /\ users[last.target].extraPermissions # {}
  /\ last.permissions \cap users[last.target].extraPermissions # {}

\* The actor of the recorded request is strictly senior to its target's role and to the
\* requested role, both principals being stored when the request was taken.
SeniorToTargetAndNewRole ==
  /\ last.pre[last.target].exists /\ last.pre[last.actor].exists
  /\ isSenior(last.pre[last.actor].role, last.pre[last.target].role)
  /\ isSenior(last.pre[last.actor].role, last.role)

\* C2: AssignRole succeeds only if the actor's role is strictly senior to the target's
\* current role and to newRole; otherwise it is rejected and the target is unchanged.
C2_AssignRoleRequiresSeniority ==
  last.op = "AssignRole" =>
    /\ last.ok => SeniorToTargetAndNewRole
    /\ ~SeniorToTargetAndNewRole => ~last.ok /\ users[last.target] = last.pre[last.target]

\* C2 witness: an admin was refused when assigning the admin role to a junior principal.
C2_Witness ==
  /\ last.op = "AssignRole" /\ ~last.ok
  /\ last.pre[last.actor].role = "admin" /\ last.role = "admin"
  /\ last.pre[last.target].exists /\ last.pre[last.target].role = "student"

\* C3 as stated: a successful AssignRole leaves role = newRole, extraPermissions as they
\* were and effectivePermissions exactly permissionsFor(newRole) \cup extraPermissions.
C3_AssignRoleResetsToRoleAndExtras ==
  last.op = "AssignRole" /\ last.ok =>
    /\ users[last.target].role = last.role
    /\ users[last.target].extraPermissions = last.pre[last.target].extraPermissions
    /\ users[last.target].permissions =
         permissionsFor(last.role) \cup last.pre[last.target].extraPermissions

\* C3 amended: a successful AssignRole leaves role = newRole, extraPermissions as they
\* were and effectivePermissions exactly permissionsFor(newRole) \cup extraPermissions
\* \cup the permissions of the Role documents in the target's `roles` array (none in
\* single-role mode).
C3_AssignRoleResetsToRolesAndExtras ==
  last.op = "AssignRole" /\ last.ok =>
    /\ users[last.target].role = last.role
    /\ users[last.target].extraPermissions = last.pre[last.target].extraPermissions
    /\ users[last.target].permissions =
         permissionsFor(last.role) \cup last.pre[last.target].extraPermissions
           \cup assignedRolePermissions(last.pre[last.target])

\* C3 witness: AssignRole went through on a multi-role principal holding an extra grant,
\* and a permission of one of its Role documents outlives the new role and the grants.
C3_Witness ==
  /\ last.op = "AssignRole" /\ last.ok
  /\ last.pre[last.target].roles # {}
  /\ last.pre[last.target].extraPermissions # {}
  /\ \E p \in users[last.target].permissions :
       /\ p \in assignedRolePermissions(last.pre[last.target])
       /\ p \notin permissionsFor(last.role) \cup users[last.target].extraPermissions

(***************************************************************************)
(* Properties of the admin user routes, authentication and the gates.       *)
(***************************************************************************)
\* C4: once UpdateUser has returned, the stored effectivePermissions of the updated
\* principal contain permissionsFor(its new role) and its new extraPermissions.
C4_UpdateUserRecomputesEffectivePermissions ==
  last.op = "UpdateUser" /\ last.ok =>
    permissionsFor(users[last.target].role) \cup users[last.target].extraPermissions
      \subseteq users[last.target].permissions

\* The requests answered by the role gate, the all-of and any-of permission gates and
\* the resource-management gate.
GateOps ==
  {"authorize", "requirePermissions", "requireAnyPermission", "requireResourceManagement"}

\* C5: a request of a super-admin principal passes the role gate, the all-of gate, the
\* any-of gate and the resource-management gate, in both middleware variants, whatever
\* the allow-list, the required permissions and the principal's effectivePermissions.
C5_SuperAdminPassesEveryGate ==
  last.op \in GateOps /\ last.user.role = "super-admin" => last.status = 0

\* C6: the principal-management gate lets a request through only if the actor's role is
\* strictly senior to the target's role, and a denied request changes nothing.
C6_UserManagementRequiresSeniority ==
  last.op \in {"UpdateUser", "DeleteUser"} =>
    /\ last.status = 0 =>
         /\ last.pre[last.target].exists
         /\ isSenior(last.user.role, last.pre[last.target].role)
    /\ last.status # 0 => users = last.pre

\* C7: an authenticated principal passes the ownership-or-manage-all gate of a stored
\* resource exactly when it holds <type>:manage_all or is the resource's owner.
C7_OwnerOrManageAllPasses ==
  /\ last.op \in {"ensureOwnershipOrManageAll", "ensureOwnerOrAdmin"}
  /\ last.user.id # ""
  /\ last.resource.exists
  => (last.status = 0 <=>
        \/ (last.resource.type \o ":manage_all") \in last.user.permissions
        \/ last.resource.owner = last.user.id)

\* C8: a request whose token names a principal that cannot be loaded (the store fails or
\* holds no record under the id) is denied by authenticate or a gate.
C8_FailClosedAuthentication ==
  /\ last.variant # ""
  /\ last.token.issued
  /\ ~last.storeUp \/ ~last.pre[last.token.id].exists
  => last.status # 0

\* C9: in both authenticate variants the role and permissions a request is gated on are
\* the ones stored for the principal when the request is handled, not the token's.
C9_GatedOnStoredRoleAndPermissions ==
  /\ last.variant # ""
  /\ last.user.id # ""
  /\ last.pre[last.token.id].exists
  => /\ last.user.role = last.pre[last.token.id].role
     /\ last.user.permissions = last.pre[last.token.id].permissions

(***************************************************************************)
(* Properties of two service calls interleaved on one target.               *)
(***************************************************************************)
\* The triple {role, extraPermissions, effectivePermissions} stored for a principal.
triple(doc) ==
  [role |-> doc.role, extraPermissions |-> doc.extraPermissions,
   permissions |-> doc.permissions]

\* The target as the two calls leave it when the first runs to completion before the
\* second starts.
serial(first, second) ==
  LET afterFirst == call(first, conc.target, conc.start, roleDocs).users
  IN  call(second, conc.target, afterFirst, roleDocs).users[conc.target]

\* C10: when both of two interleaved mutations of one target have completed, the stored
\* triple is the one left by running them one after the other in some order, and the
\* effective permissions still contain permissionsFor(role) if they did at the start.
C10_InterleavedMutationsAreSerializable ==
  /\ conc.active
  /\ \A p \in Procs : conc.procs[p].pc = "done"
  /\ users[conc.target].exists
  => /\ \/ triple(users[conc.target]) = triple(serial(conc.procs["p1"].m, conc.procs["p2"].m))
        \/ triple(users[conc.target]) = triple(serial(conc.procs["p2"].m, conc.procs["p1"].m))
     /\ permissionsFor(conc.start[conc.target].role)
           \subseteq conc.start[conc.target].permissions
         => permissionsFor(users[conc.target].role) \subseteq users[conc.target].permissions

(***************************************************************************)
(* Properties of the permission grants, removals and resets of the service. *)
(***************************************************************************)
\* The resolved union for a principal: the permissions of its Role documents in
\* multi-role mode, of its legacy role otherwise, with the given extra grants.
resolve(doc, extras) ==
  (IF doc.roles # {} THEN assignedRolePermissions(doc) ELSE permissionsFor(doc.role))
    \cup extras

\* C11: a successful AddExtraPermissions(target, P, actor) leaves extraPermissions equal
\* to its previous value \cup P, effectivePermissions equal to the resolved union for
\* the new extraPermissions (so P is effective), and the role unchanged.
C11_AddExtraPermissionsRecordsExtras ==
  last.op = "AddExtraPermissions" /\ last.ok =>
    LET before == last.pre[last.target]
        after == users[last.target]
    IN  /\ after.extraPermissions = before.extraPermissions \cup last.permissions
        /\ after.permissions = resolve(after, before.extraPermissions \cup last.permissions)
        /\ last.permissions \subseteq after.permissions
        /\ after.role = before.role

\* C12: RemoveExtraPermissions never strips a role grant: every permission of the removal
\* list that the target's current role grants is in the target's effectivePermissions
\* after the operation, whether the operation succeeded or was rejected.
C12_RemoveKeepsRoleGrants ==
  last.op = "RemoveExtraPermissions" /\ users[last.target].exists =>
    \A p \in last.permissions \cap permissionsFor(orStudent(last.pre[last.target].role)) :
      p \in users[last.target].permissions

\* A successful removal whose whole list is granted by the target's role and was
\* effective before the call.
C12_Witness ==
  /\ last.op = "RemoveExtraPermissions" /\ last.ok
  /\ last.target # last.actor
  /\ last.permissions # {}
  /\ last.permissions \subseteq permissionsFor(orStudent(last.pre[last.target].role))
  /\ last.permissions \subseteq last.pre[last.target].permissions
  /\ last.permissions \subseteq users[last.target].permissions

\* C13: after a successful RemoveExtraPermissions(target, P, actor) every permission of P
\* that the target's current role does not grant is absent from the target's
\* extraPermissions and from its effectivePermissions, however it was granted before.
C13_RemoveRemovesExtraGrants ==
  last.op = "RemoveExtraPermissions" /\ last.ok =>
    \A p \in last.permissions \ permissionsFor(orStudent(last.pre[last.target].role)) :
      /\ p \notin users[last.target].extraPermissions
      /\ p \notin users[last.target].permissions

\* C14: a successful ResetToRoleDefaults leaves the target with effectivePermissions equal
\* to permissionsFor(its current role) and with empty extraPermissions, from every prior
\* state of the target.
C14_ResetYieldsRoleDefaults ==
  last.op = "ResetToRoleDefaults" /\ last.ok =>
    /\ users[last.target].permissions = permissionsFor(orStudent(users[last.target].role))
    /\ users[last.target].extraPermissions = {}

\* C15: ResetToRoleDefaults is rejected unless the actor's role is strictly senior to the
\* target's current role, and a rejected reset leaves the target's role, extraPermissions
\* and effectivePermissions unchanged.
C15_ResetRequiresSeniority ==
  last.op = "ResetToRoleDefaults" =>
    /\ last.ok =>
         /\ last.pre[last.actor].exists /\ last.pre[last.target].exists
         /\ isSenior(orStudent(last.pre[last.actor].role), orStudent(last.pre[last.target].role))
    /\ ~last.ok =>
         /\ users[last.target].role = last.pre[last.target].role
         /\ users[last.target].extraPermissions = last.pre[last.target].extraPermissions
         /\ users[last.target].permissions = last.pre[last.target].permissions

\* An admin was refused when resetting a super-admin, and the super-admin is as it was.
C15_Witness ==
  /\ last.op = "ResetToRoleDefaults" /\ ~last.ok
  /\ last.error = "Insufficient privileges to reset user permissions"
  /\ last.pre[last.actor].role = "admin"
  /\ last.pre[last.target].role = "super-admin"
  /\ users[last.target] = last.pre[last.target]

ServiceAdminOps == {"AddExtraPermissions", "RemoveExtraPermissions", "BulkAssignRole"}

actorIsAdmin ==
  /\ last.pre[last.actor].exists
  /\ orStudent(last.pre[last.actor].role) \in {"admin", "super-admin"}

\* C16: AddExtraPermissions, RemoveExtraPermissions and BulkAssignRole are rejected when
\* the actor's role is neither admin nor super-admin, and a rejected call changes no
\* principal's stored role, extraPermissions or effectivePermissions.
C16_AdminOnlyOperations ==
  last.op \in ServiceAdminOps =>
    /\ ~actorIsAdmin => ~last.ok
    /\ ~last.ok => users = last.pre

\* A student was refused a grant to another stored principal, and the store is as it was.
C16_Witness ==
  /\ last.op = "AddExtraPermissions" /\ ~last.ok
  /\ last.error = "Only admins can assign custom permissions"
  /\ last.pre[last.actor].role = "student"
  /\ last.target # last.actor /\ last.pre[last.target].exists
  /\ ~(last.permissions \subseteq last.pre[last.target].permissions)
  /\ users = last.pre

Range(s) == {s[i] : i \in DOMAIN s}

failedIds == {f.userId : f \in Range(last.failed)}

\* The targets of the handled bulk call whose current role the actor is not senior to.
untouchable ==
  {i \in DOMAIN last.targets :
     ~isSenior(orStudent(last.pre[last.actor].role),
               orStudent(last.pre[last.targets[i]].role))}

\* C17: BulkAssignRole applies AssignRole to each target and continues after a failing
\* one: every target id of the input is in exactly one of the success and failed lists
\* (the latter with an error reason), a target of the success list holds the new role, a
\* failed target is unchanged, and when every target exists, the new role is one the actor
\* may assign and exactly one of the N targets cannot be touched by the actor, the result
\* is N-1 successes and 1 failure.
C17_BulkPartialFailure ==
  last.op = "BulkAssignRole" /\ last.ok =>
    /\ Len(last.success) + Len(last.failed) = Len(last.targets)
    /\ \A i \in DOMAIN last.targets :
         (last.targets[i] \in Range(last.success)) # (last.targets[i] \in failedIds)
    /\ \A f \in Range(last.failed) : f.error # "" /\ users[f.userId] = last.pre[f.userId]
    /\ \A t \in Range(last.success) : users[t].exists /\ users[t].role = last.role
    /\ ( /\ \A i \in DOMAIN last.targets : last.pre[last.targets[i]].exists
         /\ isSenior(orStudent(last.pre[last.actor].role), last.role)
         /\ Cardinality(untouchable) = 1 )
       => Len(last.success) = Len(last.targets) - 1 /\ Len(last.failed) = 1

\* An admin's bulk call whose first target, a super-admin, failed and whose later target
\* was still given the new role.
C17_Witness ==
  /\ last.op = "BulkAssignRole" /\ last.ok
  /\ last.pre[last.actor].role = "admin"
  /\ Len(last.targets) >= 2
  /\ last.pre[last.targets[1]].role = "super-admin"
  /\ Len(last.failed) = 1 /\ last.failed[1].userId = last.targets[1]
  /\ Len(last.success) = Len(last.targets) - 1
  /\ \E t \in Range(last.success) :
       last.pre[t].role # last.role /\ users[t].role = last.role

\* C18: ValidateRoleTransition(currentRole, newRole, actorRole) returns valid exactly when
\* AssignRole by an existing actor of role actorRole on an existing target of role
\* currentRole with newRole would succeed, and calling it changes no stored state.
C18_ValidateMatchesAssignRole ==
  last.op = "ValidateRoleTransition" /\ last.pre[last.target].exists =>
    /\ last.ok = assignRole(last.pre, roleDocs, last.target, last.role, last.actor).ok
    /\ users = last.pre

comparedRoles == {compared.roleA, compared.roleB, compared.roleC}

C21_ResolveIsExactUnion ==
  last.op = "VerifyEmail" /\ last.ok =>
    LET before == last.pre[last.target]
        after == users[last.target]
    IN  /\ after.permissions = resolve(before, before.extraPermissions) \cup before.permissions
        /\ Range(last.written) = after.permissions
        /\ \A i, j \in DOMAIN last.written : i # j => last.written[i] # last.written[j]
        /\ ( /\ before.role = "instructor" /\ before.roles = {}
             /\ before.extraPermissions = {"course:view_analytics"}
             /\ before.permissions = {} )
           => /\ after.permissions =
                   permissionsFor("instructor") \cup {"course:view_analytics"}
              /\ ~hasPermission(after.permissions, "course:manage_all")
              /\ hasAnyPermission(after.permissions,
                                  {"course:manage_own", "course:manage_all"})

\* The instructor with the extra grant course:view_analytics, which its role grants too,
\* was saved.
C21_Witness ==
  /\ last.op = "VerifyEmail" /\ last.ok /\ last.target = "u3"
  /\ last.pre["u3"].role = "instructor" /\ last.pre["u3"].roles = {}
  /\ last.pre["u3"].extraPermissions = {"course:view_analytics"}
  /\ last.pre["u3"].permissions = {}
  /\ "course:view_analytics" \in permissionsFor("instructor")
  /\ Len(last.written) = Cardinality(permissionsFor("instructor"))

\* C22: has, hasAny and hasAll are membership tests on the principal's effective
\* permissions: has(p) iff p is in the set, hasAny(L) iff some element of L is, hasAll(L)
\* iff every element of L is; hence hasAny([]) is false and hasAll([]) is true.
C22_PredicatesAreMembershipTests ==
  checked.done =>
    /\ checked.has = (checked.permission \in checked.on)
    /\ checked.hasAny = (checked.permissions \cap checked.on # {})
    /\ checked.hasAll = (checked.permissions \subseteq checked.on)
    /\ checked.methodHas = checked.has
    /\ checked.methodHasAny = checked.hasAny
    /\ checked.methodHasAll = checked.hasAll
    /\ checked.permissions = {} => ~checked.hasAny /\ checked.hasAll

\* The empty list was put to a principal that holds permissions, course:manage_all
\* among them.
C22_Witness ==
  /\ checked.done
  /\ checked.permissions = {}
  /\ checked.on # {} /\ checked.has
  /\ ~checked.hasAny /\ checked.hasAll

(***************************************************************************)
(* Properties of the gates on authenticated and unauthenticated requests.   *)
(***************************************************************************)
AllOfGates == {"requirePermissions", "permission.requirePermission",
               "permission.requireAllPermissions"}

AnyOfGates == {"requireAnyPermission", "permission.requireAnyPermission"}

\* The stored record of the principal the handled request was authenticated as.
principal == last.pre[last.token.id]

GuardOps ==
  GateOps \cup {"adminOnly", "permission.requirePermission",
                "permission.requireAnyPermission", "permission.requireAllPermissions"}

\* C24: every gate run on a request that carries no principal identity answers 401, not
\* 403, and never lets the request through; with an identity present, a request it stops
\* for insufficient privilege is answered 403.
C24_UnauthenticatedIsNotForbidden ==
  last.op \in GuardOps =>
    /\ last.user = NoUser => last.status = 401
    /\ last.user # NoUser /\ last.status # 0 => last.status = 403

(***************************************************************************)
(* Properties of the read operations of the service.                        *)
(***************************************************************************)
\* The stored principals the filters of the handled listing match.
matching ==
  {id \in UserIds :
     /\ last.pre[id].exists
     /\ last.role # NoRole => last.pre[id].role = last.role
     /\ last.permissions # {} => last.pre[id].permissions \cap last.permissions # {}}

\* The principals the actor of the handled listing may see: itself and those whose role
\* is strictly junior to its own.
visible ==
  {id \in UserIds :
     \/ id = last.actor
     \/ isSenior(orStudent(last.pre[last.actor].role), last.pre[id].role)}

\* C25: GetUsersWithRoles is rejected unless the actor holds user:view or
\* user:manage_roles; when it succeeds, every returned principal is the actor or has a
\* role strictly junior to the actor's, and every stored principal matching the filters
\* that is the actor or strictly junior to the actor is returned.
C25_ListingIsSeniorityFiltered ==
  last.op = "GetUsersWithRoles" =>
    /\ last.ok =>
         /\ last.pre[last.actor].exists
         /\ last.pre[last.actor].permissions \cap {"user:view", "user:manage_roles"} # {}
         /\ last.returned = matching \cap visible
    /\ ~last.ok => last.returned = {}
    /\ users = last.pre

\* An admin listed the principals without filters: it got itself and a junior principal,
\* and not the super-admin.
C25_Witness ==
  /\ last.op = "GetUsersWithRoles" /\ last.ok
  /\ last.pre[last.actor].role = "admin"
  /\ last.role = NoRole /\ last.permissions = {}
  /\ last.actor \in last.returned
  /\ \E id \in last.returned : id # last.actor
  /\ \E id \in matching : last.pre[id].role = "super-admin" /\ id \notin last.returned

\* C26: GetPermissionAnalysis changes no stored record, and its result splits the
\* target's effectivePermissions into two disjoint parts, the role's defaults and the
\* custom part (effectivePermissions minus the role's defaults), whose union is
\* effectivePermissions and whose reported counts add up to the reported total.
C26_AnalysisPartitionsEffectivePermissions ==
  last.op = "GetPermissionAnalysis" =>
    /\ users = last.pre
    /\ last.ok =>
         LET a == last.analysis
             effectivePermissions == last.pre[last.target].permissions
         IN  /\ a.rolePermissions \cap a.customPermissions = {}
             /\ a.customPermissions =
                  effectivePermissions \ permissionsFor(orStudent(last.pre[last.target].role))
             /\ a.rolePermissions \cup a.customPermissions = effectivePermissions
             /\ a.hasRolePermissions + a.hasCustomPermissions = a.totalPermissions

(***************************************************************************)
(* What an unprivileged caller learns about another principal.              *)
(***************************************************************************)
\* The store of the handled call with the target's record absent.
withoutTarget == [last.pre EXCEPT ![last.target] = NoDoc]

\* The actor of the handled call lacks the privilege the operation requires on the
\* target: seniority for a role change or a reset, an admin role for a grant or a
\* removal, user:view for an analysis.
lacksPrivilege ==
  CASE last.op = "AssignRole" -> ~SeniorToTargetAndNewRole
    [] last.op = "ResetToRoleDefaults" ->
         ~isSenior(orStudent(last.pre[last.actor].role),
                   orStudent(last.pre[last.target].role))
    [] last.op \in {"AddExtraPermissions", "RemoveExtraPermissions"} -> ~actorIsAdmin
    [] last.op = "GetPermissionAnalysis" ->
         ~last.ok /\ "user:view" \notin last.pre[last.actor].permissions
    [] OTHER -> FALSE

\* The outcome of the handled call had the target's record been absent.
outcomeWithoutTarget ==
  CASE last.op = "AssignRole" ->
         assignRole(withoutTarget, roleDocs, last.target, last.role, last.actor)
    [] last.op = "ResetToRoleDefaults" ->
         resetToRoleDefaults(withoutTarget, roleDocs, last.target, last.actor)
    [] last.op = "AddExtraPermissions" ->
         addCustomPermissions(withoutTarget, roleDocs, last.target, last.permissions,
                              last.actor)
    [] last.op = "RemoveExtraPermissions" ->
         removeCustomPermissions(withoutTarget, roleDocs, last.target, last.permissions,
                                 last.actor)
    [] OTHER -> getPermissionAnalysis(withoutTarget, last.target, last.actor, FALSE)

\* C27: for an actor that lacks the privilege an operation on another principal
\* requires, the outcome (error kind and message) is the same whether the target exists
\* or not: the call on the store without the target's record ends as the handled one.
C27_TargetExistenceIsNotRevealed ==
  /\ last.op \in {"AssignRole", "ResetToRoleDefaults", "AddExtraPermissions",
                  "RemoveExtraPermissions", "GetPermissionAnalysis"}
  /\ last.target # last.actor
  /\ last.pre[last.target].exists /\ last.pre[last.actor].exists
  /\ lacksPrivilege
  => /\ outcomeWithoutTarget.ok = last.ok
     /\ outcomeWithoutTarget.error = last.error

(***************************************************************************)
(* Seeding of the roles collection.                                         *)
(***************************************************************************)
\* The number of runs of seedRoles followed.
MaxSeedRuns == 2

\* role/model.ts:16-25, a permissions array left in a Role document by an earlier
\* version of the table.
StalePermissions == {"course:manage_all"}

\* role/model.ts:16-25, a Role document whose name is not an entry of the table.
CustomRole == [id |-> "support", name |-> "support", permissions |-> {"user:view"}]

\* role/model.ts:16-25, the states of the roles collection: `name` is unique, a table
\* role is absent, stored with the table's permissions or stored with stale ones, and a
\* document of another name may be there.
RoleCollections ==
  {{[id |-> r, name |-> r,
     permissions |-> IF r \in stale THEN StalePermissions ELSE ROLE_PERMISSIONS[r]]
      : r \in present} \cup extra :
     present \in SUBSET DOMAIN ROLE_PERMISSIONS,
     stale \in SUBSET DOMAIN ROLE_PERMISSIONS,
     extra \in {{}, {CustomRole}}}

\* The _id MongoDB gives to the document an upsert inserts: one no document holds.
ObjectId(docs, name) ==
  IF \E d \in docs : d.id = name THEN name \o "'" ELSE name

\* findOneAndUpdate that inserts a document even when one matches the filter.
findOneAndUpdateAlwaysInserting(docs, filter, update) ==
  docs \cup {[id |-> ObjectId(docs, filter.name), name |-> update.name,
              permissions |-> update.permissions]}

\* seedRoles.ts:10-14, Role.findOneAndUpdate(filter, update, {upsert: true, new: true}):
\* one document matching the filter gets the fields of the update, and when none matches
\* a document made of the filter and the update is inserted.
findOneAndUpdate(docs, filter, update) ==
  LET found == {d \in docs : d.name = filter.name}
  IN  IF found = {}
      THEN docs \cup {[id |-> ObjectId(docs, filter.name), name |-> update.name,
                       permissions |-> update.permissions]}
      ELSE LET doc == CHOOSE d \in found : TRUE
           IN  (docs \ {doc}) \cup
                 {[doc EXCEPT !.name = update.name, !.permissions = update.permissions]}

RECURSIVE seedEntries(_, _)
\* seedRoles.ts:8-16, the loop over Object.entries(ROLE_PERMISSIONS).
seedEntries(docs, entries) ==
  IF entries = {} THEN docs
  ELSE LET roleName == CHOOSE r \in entries : TRUE
       IN  seedEntries(findOneAndUpdate(docs, [name |-> roleName],
                                        [name |-> roleName,
                                         permissions |-> ROLE_PERMISSIONS[roleName]]),
                       entries \ {roleName})

\* seedRoles.ts:6-22.
seedRoles(docs) == seedEntries(docs, DOMAIN ROLE_PERMISSIONS)

InitSeed ==
  /\ users = [u \in UserIds |-> NoDoc]
  /\ roleDocs \in RoleCollections
  /\ credential = NoCredential
  /\ last = Idle
  /\ conc = NoConc
  /\ compared = NoComparison
  /\ checked = NoCheck

\* seedRoles.ts:6-22, one run of the seed script.
SeedRoles ==
  /\ last.runs < MaxSeedRuns
  /\ roleDocs' = seedRoles(roleDocs)
  /\ last' = [last EXCEPT !.op = "seedRoles", !.runs = @ + 1,
                          !.seededFrom = IF last.runs = 0 THEN roleDocs ELSE @]
  /\ UNCHANGED <<users, credential, conc, compared, checked>>

NextSeed == SeedRoles

SpecSeed == InitSeed /\ [][NextSeed]_vars

\* The Role documents of a collection that carry a name.
named(docs, name) == {d \in docs : d.name = name}

\* C28: seeding is an idempotent upsert by role name: once seedRoles has run, one time or
\* more, from any state of the roles collection, there is exactly one Role document per
\* role name of the default table, its permission set is the table's, and a further run
\* leaves the collection as it is.
C28_SeedIsIdempotentUpsert ==
  last.runs >= 1 =>
    /\ \A r \in DOMAIN ROLE_PERMISSIONS :
         /\ Cardinality(named(roleDocs, r)) = 1
         /\ \A d \in named(roleDocs, r) : d.permissions = ROLE_PERMISSIONS[r]
    /\ seedRoles(roleDocs) = roleDocs
    /\ \A d \in last.seededFrom :
         d.name \notin DOMAIN ROLE_PERMISSIONS => d \in roleDocs

\* A second run on a collection that had stale, missing and foreign documents.
C28_Witness ==
  /\ last.runs = 2
  /\ CustomRole \in last.seededFrom
  /\ named(last.seededFrom, "admin") = {}
  /\ \E d \in named(last.seededFrom, "editor") : d.permissions = StalePermissions
  /\ \E d \in named(last.seededFrom, "student") :
       d.permissions = ROLE_PERMISSIONS["student"]
  /\ Cardinality(roleDocs) = Cardinality(DOMAIN ROLE_PERMISSIONS) + 1

(***************************************************************************)
(* Roles set through the user-administration routes.                        *)
(***************************************************************************)
\* C29: no operation of the user-administration routes performed by an actor of role r
\* sets a principal's role, the actor's own included, to a role that is not strictly
\* junior to r: when PUT /admin/users/:userId has stored a role, the stored actor's role
\* is strictly senior to it.
C29_RoutesSetOnlyJuniorRoles ==
  /\ last.op = "UpdateUser"
  /\ last.ok
  /\ last.role # NoRole
  /\ users[last.target].role = last.role
  => isSenior(principal.role, last.role)

(***************************************************************************)
(* Two assignRole calls on any targets, interleaved at their awaits:        *)
(* findById(userId); findById(assignedBy) with the checks, the changes and   *)
(* the pre-save hook; the write of save().  One call's target may be the     *)
(* other's assigner.  Each document has its own version.                     *)
(***************************************************************************)
\* The roles the interleaved calls assign.
RaceRoles == {"student", "editor", "admin"}

\* assignRole(userId, newRole, assignedBy) calls of an assigner on another principal.
AssignCalls ==
  {[op |-> "assignRole", target |-> t, role |-> r, permissions |-> {}, actor |-> a] :
     t \in UserIds, r \in RaceRoles, a \in UserIds}
  \ {c \in [op : {"assignRole"}, target : UserIds, role : RaceRoles, permissions : {{}},
            actor : UserIds] : c.target = c.actor}

\* No assignRole calls are in progress; every document is at version 0.
NoRace ==
  [active |-> FALSE, vers |-> [u \in UserIds |-> 0],
   procs |-> [p \in Procs |->
                NotStarted([op |-> "none", target |-> "u1", role |-> NoRole,
                            permissions |-> {}, actor |-> "u1"])]]

InitRace ==
  /\ users \in InitUsers
  /\ roleDocs = SeededRoles
  /\ credential = NoCredential
  /\ last = Idle
  /\ conc = NoRace
  /\ compared = NoComparison
  /\ checked = NoCheck

\* Two requests reach RoleManagementService.assignRole.
BeginAssignRoles ==
  \E c1 \in AssignCalls, c2 \in AssignCalls :
    /\ ~conc.active
    /\ conc' = [NoRace EXCEPT !.active = TRUE,
                              !.procs = [p \in Procs |->
                                           NotStarted(IF p = "p1" THEN c1 ELSE c2)]]
    /\ UNCHANGED <<users, roleDocs, credential, last, compared, checked>>

\* part_020:21-24, `await User.findById(userId)`.
FindUser ==
  \E p \in Procs :
    /\ conc.active
    /\ conc.procs[p].pc = "start"
    /\ LET m == conc.procs[p].m
       IN  conc' = IF users[m.target].exists
                   THEN [conc EXCEPT !.procs[p].pc = "loaded",
                                     !.procs[p].user = users[m.target],
                                     !.procs[p].v = conc.vers[m.target]]
                   ELSE [conc EXCEPT !.procs[p].pc = "done",
                                     !.procs[p].result = "User not found"]
    /\ UNCHANGED <<users, roleDocs, credential, last, compared, checked>>

\* part_020:26-45, `await User.findById(assignedBy)`, the two comparisons, the
\* assignments to the loaded document and the validation and pre-save hook of save().
FindAssigner ==
  \E p \in Procs :
    /\ conc.active
    /\ conc.procs[p].pc = "loaded"
    /\ LET m == conc.procs[p].m
           r == assignRole([users EXCEPT ![m.target] = conc.procs[p].user], roleDocs,
                           m.target, m.role, m.actor)
       IN  conc' = IF r.ok
                   THEN [conc EXCEPT !.procs[p].pc = "computed",
                                     !.procs[p].doc = r.users[m.target]]
                   ELSE [conc EXCEPT !.procs[p].pc = "done",
                                     !.procs[p].result = r.error]
    /\ UNCHANGED <<users, roleDocs, credential, last, compared, checked>>

\* part_020:45, the write of save(): nothing when no path was modified; `role` alone
\* unconditionally; `permissions` (with `role` when modified) only on the version of the
\* target that was loaded.
WriteUser ==
  \E p \in Procs :
    /\ conc.active
    /\ conc.procs[p].pc = "computed"
    /\ LET m == conc.procs[p].m
           user == conc.procs[p].user
           doc == conc.procs[p].doc
           roleModified == doc.role # user.role
           permissionsModified ==
             \/ assigned(m, user) # user.permissions
             \/ doc.permissions # assigned(m, user)
       IN  IF ~roleModified /\ ~permissionsModified
           THEN /\ conc' = [conc EXCEPT !.procs[p].pc = "done", !.procs[p].result = "saved"]
                /\ users' = users
           ELSE IF ~permissionsModified
           THEN /\ conc' = [conc EXCEPT !.procs[p].pc = "done", !.procs[p].result = "saved"]
                /\ users' = [users EXCEPT ![m.target].role = doc.role]
           ELSE IF conc.vers[m.target] = conc.procs[p].v
           THEN /\ conc' = [conc EXCEPT !.procs[p].pc = "done",
                                        !.procs[p].result = "saved",
                                        !.vers[m.target] = @ + 1]
                /\ users' = [users EXCEPT ![m.target].role = doc.role,
                                          ![m.target].permissions = doc.permissions]
           ELSE /\ conc' = [conc EXCEPT !.procs[p].pc = "done",
                                        !.procs[p].result = "VersionError"]
                /\ users' = users
    /\ UNCHANGED <<roleDocs, credential, last, compared, checked>>

NextRace ==
  \/ BeginAssignRoles
  \/ FindUser
  \/ FindAssigner
  \/ WriteUser

SpecRace == InitRace /\ [][NextRace]_vars

\* The call p commits a role change in this step.
commits(p) ==
  /\ conc.active
  /\ conc.procs[p].pc = "computed"
  /\ conc'.procs[p].pc = "done"
  /\ conc'.procs[p].result = "saved"
  /\ users'[conc.procs[p].m.target].role # users[conc.procs[p].m.target].role

\* C30: under concurrent administration operations an AssignRole by actor A on target T
\* commits a role change only if, in the store the write is applied to, A's stored role
\* is strictly senior to T's stored role and to newRole.
C30_SeniorityHoldsAtWrite ==
  [][\A p \in Procs :
       commits(p) =>
         LET m == conc.procs[p].m
         IN  /\ users[m.actor].exists
             /\ isSenior(orStudent(users[m.actor].role), orStudent(users[m.target].role))
             /\ isSenior(orStudent(users[m.actor].role), m.role)]_vars

====
